---------------------------- MODULE Spec2Model ----------------------------
(***************************************************************************)
(* Model of server/cv/extract_tokens.py: the value quantizer, the six     *)
(* extractors seen as functions of the shared raster buffer, and the      *)
(* orchestrators that run them concurrently with a sequential fallback.   *)
(*                                                                         *)
(* Spec   : the orchestrators (extract_design_tokens,                      *)
(*          extract_design_tokens_sequential,                              *)
(*          extract_design_tokens_with_walkthrough) called repeatedly in  *)
(*          one process on one input image.                                *)
(* SpecQ  : quantize_values applied to bounded inputs, then applied again *)
(*          to its own output.                                             *)
(***************************************************************************)
EXTENDS Integers, Sequences, FiniteSets, TLC

VARIABLES
    img,          \* the input image of every call of the behaviour
    rng,          \* state of OpenCV's RNG in the calling process (k-means seeding)
    api,          \* the entry point being executed
    pc,           \* position of the orchestrator
    img_resized,  \* the working buffer the sequential pass hands to each extractor
    img_bytes,    \* the bytes handed to the concurrent tasks
    task,         \* state of each submitted future
    workerRng,    \* RNG state a worker process starts from
    results,      \* the dict being filled (results / tokens)
    debug,        \* the walkthrough's debug dict
    color_analysis, \* the walkthrough's color_analysis local
    seqi,         \* number of extractors the sequential pass has run
    ret,          \* the value returned by the call
    origin,       \* ghost: which attempt wrote each entry of results
    seen,         \* ghost: the buffer content each extractor of the last pass read
    seedUsed,     \* ghost: RNG state the k-means behind results["color"] started from
    attempts,     \* ghost: concurrent attempts and sequential passes of this call
    outOfOrder,   \* ghost: a task completed before one submitted earlier
    failedAt,     \* ghost: -1, or the number of results merged when a task raised
    prev,         \* ghost: the previous returned bundle
    values,       \* quantizer: input values
    snap_points,  \* quantizer: snap points
    qpc,          \* quantizer: position
    out1,         \* quantizer: quantize_values(values, snap_points)
    out2,         \* quantizer: quantize_values(out1, snap_points)
    ranked,       \* colors: the centroids in population order, as Color objects
    cpc,          \* colors: position in the tail of extract_colors
    unique_8,     \* colors: the deduplicated palette
    harmony,      \* colors: analyze_color_harmony(unique_8)
    contrasts,    \* colors: analyze_contrast_pairs(unique_8)
    temperature,  \* colors: analyze_color_temperature(unique_8)
    xname,        \* extractors: the extractor under study
    xin,          \* extractors: what its OpenCV calls measure on the image
    xpc,          \* extractors: position
    core_out,     \* extractors: what the core extractor returns
    debug_out,    \* extractors: what the walkthrough extractor returns
    source,       \* main: what loading the input gives
    with_visuals, \* main: the --with-visuals flag
    mpc,          \* main: position
    stdout,       \* main: documents printed on stdout
    stderr,       \* main: reports printed on stderr
    status,       \* main: exit status, -1 while running
    rin,          \* resize: the image given to resize_for_speed
    rmax,         \* resize: max_width
    rpc,          \* resize: position
    rout          \* resize: what resize_for_speed returns or raises

ovars == <<img, rng, api, pc, img_resized, img_bytes, task, workerRng, results,
           debug, color_analysis, seqi, ret, origin, seen, seedUsed, attempts,
           outOfOrder, failedAt, prev>>
qvars == <<values, snap_points, qpc, out1, out2>>
cvars == <<ranked, cpc, unique_8, harmony, contrasts, temperature>>
xvars == <<xname, xin, xpc, core_out, debug_out>>
mvars == <<source, with_visuals, mpc, stdout, stderr, status>>
rvars == <<rin, rmax, rpc, rout>>
pvars == <<qvars, cvars, xvars, rvars>>
nvars == <<pvars, mvars>>
vars == <<ovars, qvars, cvars, xvars, mvars, rvars>>

-----------------------------------------------------------------------------
(* Bounds *)

MaxPix == 1
MaxRng == 2
MaxLen == 2
MaxVal == 8
MaxSnap == 4
MaxPal == 2
MaxWheel == 3

-----------------------------------------------------------------------------
(* Utility helpers *)

\* An image: its shape, an identifier of its pixel content, and whether
\* something has been drawn into it since it was produced.
Image(p) ==
    [w |-> IF p = 0 THEN 64 ELSE 1024,
     h |-> IF p = 0 THEN 64 ELSE 767,
     pix |-> p, ink |-> 0]

Images == {Image(p) : p \in 0..MaxPix}

\* int(d * scale) with scale = max_width / w
ScaledInt(d, max_width, w) == (d * max_width) \div w

resize_for_speed(im, max_width) ==
    IF im.w <= max_width
    THEN im
    ELSE [im EXCEPT !.w = ScaledInt(im.w, max_width, im.w),
                    !.h = ScaledInt(im.h, max_width, im.w)]

\* cv2.rectangle / drawContours / circle / arrowedLine / item assignment
Draw(im) == [im EXCEPT !.ink = 1]

\* img.copy(), np.zeros_like(img): a fresh array
Copy(im) == im

-----------------------------------------------------------------------------
(* The extractors.  Each is a function of the buffer it is given (and, for *)
(* the color extractor, of the RNG state its k-means starts from); the     *)
(* field img is the argument array as the call leaves it.                  *)

Measure(kind, im) == [kind |-> kind, from |-> im]

\* cv2.kmeans(..., 3, cv2.KMEANS_PP_CENTERS): the centers depend on the pixels
\* and on the state of OpenCV's RNG, from which the k-means++ seeding draws
\* and which no call of this file seeds.  On a uniform image (pix = 0) every
\* seeding gives the same centers.
kmeans(pixels, seed) ==
    [pixels |-> pixels, seeding |-> IF pixels.pix = 0 THEN 0 ELSE seed]

extract_colors(im, seed) ==
    LET img_small == resize_for_speed(im, 256)
        centers == kmeans(img_small, seed)
    IN [colors |-> [kind |-> "colors", from |-> centers],
        analysis |-> [kind |-> "analysis", from |-> centers],
        img |-> im]

\* extract_spacing writing its boxes into the buffer it was given
extract_spacing_inplace(im) ==
    [tokens |-> Measure("spacing", im), img |-> Draw(im)]

extract_spacing(im) ==
    [tokens |-> Measure("spacing", im), img |-> im]

extract_border_radius(im) ==
    [tokens |-> Measure("borderRadius", im), img |-> im]

extract_grid(im) ==
    [tokens |-> Measure("grid", im), img |-> im]

extract_shadows(im) ==
    [tokens |-> Measure("elevation", im), img |-> im]

extract_strokes(im) ==
    [tokens |-> Measure("strokeWidth", im), img |-> im]

\* The walkthrough variants draw into copies of the buffer only.
extract_colors_with_debug(im, seed) ==
    LET img_small == resize_for_speed(im, 256)
        centers == kmeans(img_small, seed)
        cluster_vis == Draw(Copy(img_small))
    IN [tokens |-> [kind |-> "colors_with_debug", from |-> centers],
        analysis |-> [kind |-> "analysis", from |-> centers],
        debug |-> [kind |-> "debug_color", from |-> centers],
        img |-> im]

extract_spacing_with_debug(im) ==
    LET bbox_vis == Draw(Copy(im))
    IN [tokens |-> Measure("spacing_with_debug", im),
        debug |-> Measure("debug_spacing", im), img |-> im]

extract_border_radius_with_debug(im) ==
    LET contour_vis == Draw(Copy(im))
        corner_vis == Draw(Copy(im))
    IN [tokens |-> Measure("borderRadius_with_debug", im),
        debug |-> Measure("debug_borderRadius", im), img |-> im]

extract_grid_with_debug(im) ==
    [tokens |-> Measure("grid_with_debug", im),
     debug |-> Measure("debug_grid", im), img |-> im]

extract_shadows_with_debug(im) ==
    LET arrow_vis == Draw(Copy(im))
    IN [tokens |-> Measure("elevation_with_debug", im),
        debug |-> Measure("debug_elevation", im), img |-> im]

extract_strokes_with_debug(im) ==
    LET overlay == Draw(Copy(im))
    IN [tokens |-> Measure("strokeWidth_with_debug", im),
        debug |-> Measure("debug_strokeWidth", im), img |-> im]

-----------------------------------------------------------------------------
(* Parallel extraction wrappers *)

extractor_names ==
    <<"color", "spacing", "borderRadius", "grid", "elevation", "strokeWidth">>

Names == {extractor_names[i] : i \in 1..Len(extractor_names)}

Idx(name) == CHOOSE i \in 1..Len(extractor_names) : extractor_names[i] = name

\* np.frombuffer(img_bytes, dtype=np.uint8).reshape(img_shape)
frombuffer(bytes) == bytes

\* the extractors table of _run_extractor
extractors(name, im, seed) ==
    CASE name = "color" -> extract_colors(im, seed)
      [] name = "spacing" -> extract_spacing(im)
      [] name = "borderRadius" -> extract_border_radius(im)
      [] name = "grid" -> extract_grid(im)
      [] name = "elevation" -> extract_shadows(im)
      [] name = "strokeWidth" -> extract_strokes(im)

run_extractor(name, bytes, seed) == extractors(name, frombuffer(bytes), seed)

\* the extractors table of _run_extractor_with_debug and of the walkthrough's
\* sequential loop
extractors_with_debug(name, im, seed) ==
    CASE name = "color" -> extract_colors_with_debug(im, seed)
      [] name = "spacing" -> extract_spacing_with_debug(im)
      [] name = "borderRadius" -> extract_border_radius_with_debug(im)
      [] name = "grid" -> extract_grid_with_debug(im)
      [] name = "elevation" -> extract_shadows_with_debug(im)
      [] name = "strokeWidth" -> extract_strokes_with_debug(im)

run_extractor_with_debug(name, bytes, seed) ==
    extractors_with_debug(name, frombuffer(bytes), seed)

\* extract_colors_with_debug reads contrasts['summary'], which
\* analyze_contrast_pairs leaves out for a palette of fewer than two colors:
\* on a uniform image (pix = 0) the twelve centroids are one color and the
\* walkthrough variant of the color extractor raises KeyError
raises_KeyError(name, im) == name = "color" /\ im.pix = 0

-----------------------------------------------------------------------------
(* Master extractor: state shared by the three entry points *)

Keys == Names \cup {"colorAnalysis", "meta"}
Absent == [kind |-> "absent"]
EmptyDict == [k \in Keys |-> Absent]
NoOrigin == [k \in Keys |-> "none"]
NoReturn == [kind |-> "none"]

\* ProcessPoolExecutor(max_workers=len(extractor_names))
max_workers == Len(extractor_names)

Running(t) == {n \in Names : t[n] = "running"}
Queued(t) == {n \in Names : t[n] = "queued"}

\* a worker that becomes free takes the oldest queued work item
Dispatch(t) ==
    IF Cardinality(Running(t)) < max_workers /\ Queued(t) # {}
    THEN LET n == CHOOSE n \in Queued(t) : \A m \in Queued(t) : Idx(n) <= Idx(m)
         IN [t EXCEPT ![n] = "running"]
    ELSE t

\* the futures dict with the last extractor name left out
SubmittedAllButLast ==
    [n \in Names |->
        IF Idx(n) = Len(extractor_names) THEN "none"
        ELSE IF Idx(n) <= max_workers THEN "running" ELSE "queued"]

\* futures = {executor.submit(..., name, img_bytes, img_shape): name
\*            for name in extractor_names}: one future per name, the first
\* max_workers of them picked up at once
Submitted ==
    [n \in Names |-> IF Idx(n) <= max_workers THEN "running" ELSE "queued"]

futures == {n \in Names : task[n] # "none"}

\* leaving the with block without waiting for the running tasks
ExecutorExitNoWait(t) == TRUE

\* ProcessPoolExecutor.__exit__ is shutdown(wait=True): the with block is
\* left only when no work item is queued or running
ExecutorExitReady(t) == Running(t) = {} /\ Queued(t) = {}

meta_sequential ==
    [method |-> "heuristic-cv", confidence |-> "medium-high",
     realtimeSafe |-> TRUE, parallel |-> FALSE]

meta_parallel ==
    [method |-> "heuristic-cv", confidence |-> "medium-high",
     realtimeSafe |-> TRUE, parallel |-> TRUE]

meta_walkthrough ==
    [method |-> "heuristic-cv", confidence |-> "medium-high",
     realtimeSafe |-> TRUE, parallel |-> TRUE, walkthrough |-> TRUE]

\* results keyed by the position at which the task completed
MergeByArrival(st, name, r, who) ==
    LET k == extractor_names[Cardinality({n \in Names : st.results[n] # Absent}) + 1]
    IN IF name = "color"
       THEN [results |-> [st.results EXCEPT ![k] = r.colors,
                                            !["colorAnalysis"] = r.analysis],
             origin |-> [st.origin EXCEPT ![k] = who, !["colorAnalysis"] = who]]
       ELSE [results |-> [st.results EXCEPT ![k] = r.tokens],
             origin |-> [st.origin EXCEPT ![k] = who]]

\* body of the as_completed loop of extract_design_tokens_parallel
MergeResult(st, name, r, who) ==
    IF name = "color"
    THEN [results |-> [st.results EXCEPT !["color"] = r.colors,
                                         !["colorAnalysis"] = r.analysis],
          origin |-> [st.origin EXCEPT !["color"] = who, !["colorAnalysis"] = who]]
    ELSE [results |-> [st.results EXCEPT ![name] = r.tokens],
          origin |-> [st.origin EXCEPT ![name] = who]]

\* the sequential pass running the spacing extractor for the grid entry
SequentialCallSwapped(name, im, seed) ==
    extractors(IF name = "grid" THEN "spacing" ELSE name, im, seed)

\* the extractor extract_design_tokens_sequential calls for each entry
SequentialCall(name, im, seed) ==
    CASE name = "color" -> extract_colors(im, seed)
      [] name = "spacing" -> extract_spacing(im)
      [] name = "borderRadius" -> extract_border_radius(im)
      [] name = "grid" -> extract_grid(im)
      [] name = "elevation" -> extract_shadows(im)
      [] name = "strokeWidth" -> extract_strokes(im)

\* order in which extract_design_tokens_sequential evaluates its calls:
\* color_result first, then the dict display from top to bottom
sequential_order ==
    <<"color", "spacing", "borderRadius", "grid", "elevation", "strokeWidth">>

\* entry of the dict display of extract_design_tokens_sequential
SequentialEntry(st, name, r, who) ==
    IF name = "color"
    THEN [results |-> [st.results EXCEPT !["color"] = r.colors,
                                         !["colorAnalysis"] = r.analysis],
          origin |-> [st.origin EXCEPT !["color"] = who, !["colorAnalysis"] = who]]
    ELSE [results |-> [st.results EXCEPT ![name] = r.tokens],
          origin |-> [st.origin EXCEPT ![name] = who]]

\* the walkthrough keeping an entry that is already there
WalkthroughStoreIfAbsent(st, name, r, who) ==
    IF st.tokens[name] # Absent THEN st
    ELSE [tokens |-> [st.tokens EXCEPT ![name] = r.tokens],
          debug |-> [st.debug EXCEPT ![name] = r.debug],
          color_analysis |->
              IF name = "color" THEN r.analysis ELSE st.color_analysis,
          origin |->
              IF name = "color"
              THEN [st.origin EXCEPT ![name] = who, !["colorAnalysis"] = who]
              ELSE [st.origin EXCEPT ![name] = who]]

\* tokens[name] = result["tokens"]; debug[name] = result["debug"];
\* if name == "color" and "analysis" in result: color_analysis = ...
WalkthroughStore(st, name, r, who) ==
    [tokens |-> [st.tokens EXCEPT ![name] = r.tokens],
     debug |-> [st.debug EXCEPT ![name] = r.debug],
     color_analysis |->
         IF name = "color" THEN r.analysis ELSE st.color_analysis,
     origin |->
         IF name = "color"
         THEN [st.origin EXCEPT ![name] = who, !["colorAnalysis"] = who]
         ELSE [st.origin EXCEPT ![name] = who]]

\* the ghost record of a returned call
Returned ==
    [api |-> api, seq |-> attempts.seq, ret |-> ret, seed |-> seedUsed,
     ooo |-> outOfOrder]

NoPrev == [api |-> "none"]

Callable == pc \in {"idle", "returned", "raised"} /\ rng < MaxRng

\* what every entry point does to the ghosts and locals on entry
Enter(a, par, seq) ==
    /\ api' = a
    /\ results' = EmptyDict
    /\ debug' = EmptyDict
    /\ color_analysis' = Absent
    /\ seqi' = 0
    /\ ret' = NoReturn
    /\ origin' = NoOrigin
    /\ seen' = EmptyDict
    /\ seedUsed' = 0
    /\ attempts' = [par |-> par, seq |-> seq]
    /\ outOfOrder' = FALSE
    /\ failedAt' = -1
    /\ prev' = IF pc = "returned" THEN Returned ELSE prev
    /\ UNCHANGED <<img, rng, nvars>>

-----------------------------------------------------------------------------
(* Master extractor: the steps *)

\* extract_design_tokens: the try block enters extract_design_tokens_parallel,
\* which resizes, serializes the buffer and submits the six tasks.  A worker
\* process starts from the caller's RNG state (fork) or from a fresh one
\* (spawn, forkserver).
CallTokens ==
    /\ Callable
    /\ Enter("tokens", 1, 0)
    /\ pc' = "as_completed"
    /\ img_resized' = resize_for_speed(img, 512)
    /\ img_bytes' = resize_for_speed(img, 512)
    /\ task' = Submitted
    /\ \E seed \in {0, rng} : workerRng' = seed

\* extract_design_tokens_with_walkthrough up to the submission
CallWalkthrough ==
    /\ Callable
    /\ Enter("walkthrough", 1, 0)
    /\ pc' = "as_completed"
    /\ img_resized' = resize_for_speed(img, 512)
    /\ img_bytes' = resize_for_speed(img, 512)
    /\ task' = Submitted
    /\ \E seed \in {0, rng} : workerRng' = seed

\* extract_design_tokens_sequential called directly
CallSequential ==
    /\ Callable
    /\ Enter("sequential", 0, 1)
    /\ pc' = "sequential"
    /\ img_resized' = resize_for_speed(img, 512)
    /\ task' = [n \in Names |-> "none"]
    /\ workerRng' = 0
    /\ UNCHANGED img_bytes

\* as_completed yields the future of task n, which returned: the loop body
\* of extract_design_tokens_parallel merges its result
ParallelTaskReturns(n) ==
    /\ pc = "as_completed"
    /\ api = "tokens"
    /\ task[n] = "running"
    /\ LET r == run_extractor(n, img_bytes, workerRng)
           st == MergeResult([results |-> results, origin |-> origin], n, r, "par")
       IN /\ results' = st.results
          /\ origin' = st.origin
    /\ task' = Dispatch([task EXCEPT ![n] = "finished"])
    /\ seen' = [seen EXCEPT ![n] = frombuffer(img_bytes)]
    /\ seedUsed' = IF n = "color" THEN workerRng ELSE seedUsed
    /\ outOfOrder' = (outOfOrder \/ \E m \in Names : Idx(m) > Idx(n) /\ task[m] = "finished")
    /\ UNCHANGED <<img, rng, api, pc, img_resized, img_bytes, workerRng, debug,
                   color_analysis, seqi, ret, attempts, prev, failedAt, nvars>>

\* the same for the loop body of extract_design_tokens_with_walkthrough
WalkthroughTaskReturns(n) ==
    /\ pc = "as_completed"
    /\ api = "walkthrough"
    /\ task[n] = "running"
    /\ ~raises_KeyError(n, frombuffer(img_bytes))
    /\ LET r == run_extractor_with_debug(n, img_bytes, workerRng)
           st == WalkthroughStore([tokens |-> results, debug |-> debug,
                                   color_analysis |-> color_analysis,
                                   origin |-> origin], n, r, "par")
       IN /\ results' = st.tokens
          /\ debug' = st.debug
          /\ color_analysis' = st.color_analysis
          /\ origin' = st.origin
    /\ task' = Dispatch([task EXCEPT ![n] = "finished"])
    /\ seen' = [seen EXCEPT ![n] = frombuffer(img_bytes)]
    /\ seedUsed' = IF n = "color" THEN workerRng ELSE seedUsed
    /\ outOfOrder' = (outOfOrder \/ \E m \in Names : Idx(m) > Idx(n) /\ task[m] = "finished")
    /\ UNCHANGED <<img, rng, api, pc, img_resized, img_bytes, workerRng, seqi,
                   ret, attempts, prev, failedAt, nvars>>

\* as_completed yields the future of task n, which raised: future.result()
\* re-raises, the loop is left and the with block starts to exit
TaskRaises(n) ==
    /\ pc = "as_completed"
    /\ task[n] = "running"
    /\ task' = Dispatch([task EXCEPT ![n] = "finished"])
    /\ pc' = "exit"
    /\ failedAt' = Cardinality({m \in Names : results[m] # Absent})
    /\ UNCHANGED <<img, rng, api, img_resized, img_bytes, workerRng, results,
                   debug, color_analysis, seqi, ret, origin, seen, seedUsed,
                   attempts, outOfOrder, prev, nvars>>

\* while the with block exits, a task still running runs to its end; nobody
\* reads its outcome
TaskEnds(n) ==
    /\ pc = "exit"
    /\ task[n] = "running"
    /\ task' = Dispatch([task EXCEPT ![n] = "finished"])
    /\ UNCHANGED <<img, rng, api, pc, img_resized, img_bytes, workerRng, results,
                   debug, color_analysis, seqi, ret, origin, seen, seedUsed,
                   attempts, outOfOrder, prev, failedAt, nvars>>

\* extract_design_tokens: the exception leaves extract_design_tokens_parallel
\* (its results dict is dropped) and the except clause enters
\* extract_design_tokens_sequential, which resizes the input again
TokensFallback ==
    /\ pc = "exit"
    /\ api = "tokens"
    /\ ExecutorExitReady(task)
    /\ pc' = "sequential"
    /\ img_resized' = resize_for_speed(img, 512)
    /\ results' = EmptyDict
    /\ origin' = NoOrigin
    /\ seen' = EmptyDict
    /\ seqi' = 0
    /\ attempts' = [attempts EXCEPT !.seq = attempts.seq + 1]
    /\ UNCHANGED <<img, rng, api, img_bytes, task, workerRng, debug,
                   color_analysis, ret, seedUsed, outOfOrder, prev, failedAt, nvars>>

\* extract_design_tokens_with_walkthrough: the except clause starts its loop
\* over extractor_names, with tokens and debug as the failed attempt left them
WalkthroughFallback ==
    /\ pc = "exit"
    /\ api = "walkthrough"
    /\ ExecutorExitReady(task)
    /\ pc' = "sequential"
    /\ seen' = EmptyDict
    /\ seqi' = 0
    /\ attempts' = [attempts EXCEPT !.seq = attempts.seq + 1]
    /\ UNCHANGED <<img, rng, api, img_resized, img_bytes, task, workerRng,
                   results, debug, color_analysis, ret, origin, seedUsed,
                   outOfOrder, prev, failedAt, nvars>>

\* extract_design_tokens_sequential runs its next extractor on img_resized
SequentialStep ==
    /\ pc = "sequential"
    /\ api \in {"tokens", "sequential"}
    /\ seqi < Len(sequential_order)
    /\ LET n == sequential_order[seqi + 1]
           r == SequentialCall(n, img_resized, rng)
           st == SequentialEntry([results |-> results, origin |-> origin], n, r, "seq")
       IN /\ results' = st.results
          /\ origin' = st.origin
          /\ img_resized' = r.img
          /\ rng' = IF n = "color" THEN rng + 1 ELSE rng
          /\ seen' = [seen EXCEPT ![n] = img_resized]
          /\ seedUsed' = IF n = "color" THEN rng ELSE seedUsed
    /\ seqi' = seqi + 1
    /\ UNCHANGED <<img, api, pc, img_bytes, task, workerRng, debug,
                   color_analysis, ret, attempts, outOfOrder, prev, failedAt, nvars>>

\* the walkthrough's sequential loop runs its next extractor on a fresh
\* array over img_bytes
WalkthroughStep ==
    /\ pc = "sequential"
    /\ api = "walkthrough"
    /\ seqi < Len(extractor_names)
    /\ ~raises_KeyError(extractor_names[seqi + 1], frombuffer(img_bytes))
    /\ LET n == extractor_names[seqi + 1]
           img_copy == frombuffer(img_bytes)
           r == extractors_with_debug(n, img_copy, rng)
           st == WalkthroughStore([tokens |-> results, debug |-> debug,
                                   color_analysis |-> color_analysis,
                                   origin |-> origin], n, r, "seq")
       IN /\ results' = st.tokens
          /\ debug' = st.debug
          /\ color_analysis' = st.color_analysis
          /\ origin' = st.origin
          /\ rng' = IF n = "color" THEN rng + 1 ELSE rng
          /\ seen' = [seen EXCEPT ![n] = img_copy]
          /\ seedUsed' = IF n = "color" THEN rng ELSE seedUsed
    /\ seqi' = seqi + 1
    /\ UNCHANGED <<img, api, pc, img_resized, img_bytes, task, workerRng, ret,
                   attempts, outOfOrder, prev, failedAt, nvars>>

\* an extractor of the sequential pass raises and the pass is started again
SequentialRaisesRetried ==
    /\ pc = "sequential"
    /\ seqi < Len(extractor_names)
    /\ attempts.seq < 3
    /\ seqi' = 0
    /\ attempts' = [attempts EXCEPT !.seq = attempts.seq + 1]
    /\ UNCHANGED <<img, rng, api, pc, img_resized, img_bytes, task, workerRng,
                   results, debug, color_analysis, ret, origin, seen,
                   seedUsed, outOfOrder, prev, failedAt, nvars>>

\* an extractor of the sequential pass raises: nothing catches it, the call
\* ends with the exception
SequentialRaises ==
    /\ pc = "sequential"
    /\ seqi < Len(extractor_names)
    /\ pc' = "raised"
    /\ UNCHANGED <<img, rng, api, img_resized, img_bytes, task, workerRng,
                   results, debug, color_analysis, seqi, ret, origin, seen,
                   seedUsed, attempts, outOfOrder, prev, failedAt, nvars>>

\* extract_design_tokens_parallel: every future was consumed, the with block
\* exits, meta is attached and results returned
ParallelReturn ==
    /\ pc = "as_completed"
    /\ api = "tokens"
    /\ \A n \in futures : task[n] = "finished"
    /\ results' = [results EXCEPT !["meta"] = meta_parallel]
    /\ ret' = results'
    /\ pc' = "returned"
    /\ UNCHANGED <<img, rng, api, img_resized, img_bytes, task, workerRng,
                   debug, color_analysis, seqi, origin, seen, seedUsed,
                   attempts, outOfOrder, prev, failedAt, nvars>>

\* extract_design_tokens_sequential returns its dict
SequentialReturn ==
    /\ pc = "sequential"
    /\ api \in {"tokens", "sequential"}
    /\ seqi = Len(sequential_order)
    /\ results' = [results EXCEPT !["meta"] = meta_sequential]
    /\ ret' = results'
    /\ pc' = "returned"
    /\ UNCHANGED <<img, rng, api, img_resized, img_bytes, task, workerRng,
                   debug, color_analysis, seqi, origin, seen, seedUsed,
                   attempts, outOfOrder, prev, failedAt, nvars>>

\* extract_design_tokens_with_walkthrough: after the try statement, whichever
\* way it ended, colorAnalysis and meta are attached and the pair returned
WalkthroughReturn ==
    /\ api = "walkthrough"
    /\ \/ pc = "as_completed" /\ \A n \in futures : task[n] = "finished"
       \/ pc = "sequential" /\ seqi = Len(extractor_names)
    /\ results' = [results EXCEPT !["colorAnalysis"] = color_analysis,
                                  !["meta"] = meta_walkthrough]
    /\ ret' = [tokens |-> results', debug |-> debug]
    /\ pc' = "returned"
    /\ UNCHANGED <<img, rng, api, img_resized, img_bytes, task, workerRng,
                   debug, color_analysis, seqi, origin, seen, seedUsed,
                   attempts, outOfOrder, prev, failedAt, nvars>>

\* the quantizer check is not running
QIdle ==
    /\ values = <<>>
    /\ snap_points = <<0>>
    /\ qpc = "off"
    /\ out1 = <<>>
    /\ out2 = <<>>

\* the color analysis check is not running
CIdle ==
    /\ ranked = <<>>
    /\ cpc = "off"
    /\ unique_8 = <<>>
    /\ harmony = <<>>
    /\ contrasts = <<>>
    /\ temperature = <<>>

\* the extractor check is not running
XIdle ==
    /\ xname = "none"
    /\ xin = <<>>
    /\ xpc = "off"
    /\ core_out = <<>>
    /\ debug_out = <<>>

\* main is not running: the entry points are called from Python
MIdle ==
    /\ source = "none"
    /\ with_visuals = FALSE
    /\ mpc = "off"
    /\ stdout = 0
    /\ stderr = 0
    /\ status = -1

\* resize_for_speed is not under study
RIdle ==
    /\ rin = Image(0)
    /\ rmax = 0
    /\ rpc = "off"
    /\ rout = <<>>

Init ==
    /\ QIdle
    /\ CIdle
    /\ XIdle
    /\ MIdle
    /\ RIdle
    /\ img \in Images
    /\ rng = 0
    /\ api = "none"
    /\ pc = "idle"
    /\ img_resized = img
    /\ img_bytes = img
    /\ task = [n \in Names |-> "none"]
    /\ workerRng = 0
    /\ results = EmptyDict
    /\ debug = EmptyDict
    /\ color_analysis = Absent
    /\ seqi = 0
    /\ ret = NoReturn
    /\ origin = NoOrigin
    /\ seen = EmptyDict
    /\ seedUsed = 0
    /\ attempts = [par |-> 0, seq |-> 0]
    /\ outOfOrder = FALSE
    /\ failedAt = -1
    /\ prev = NoPrev

Next ==
    \/ CallTokens
    \/ CallWalkthrough
    \/ CallSequential
    \/ \E n \in Names : ParallelTaskReturns(n)
    \/ \E n \in Names : WalkthroughTaskReturns(n)
    \/ \E n \in Names : TaskRaises(n)
    \/ \E n \in Names : TaskEnds(n)
    \/ TokensFallback
    \/ WalkthroughFallback
    \/ SequentialStep
    \/ WalkthroughStep
    \/ SequentialRaises
    \/ ParallelReturn
    \/ SequentialReturn
    \/ WalkthroughReturn

Spec == Init /\ [][Next]_vars

-----------------------------------------------------------------------------
(* Properties of the orchestrators, checked under Spec *)

\* the content the preprocessor produced for this input
Resized == resize_for_speed(img, 512)

CoreApi == {"tokens", "sequential"}
ExtractorKeys == Names \cup {"colorAnalysis"}

\* the bundle a core pass assembles when every extractor reads Resized
ExpectedCore(seed, meta) ==
    [k \in Keys |->
        CASE k = "color" -> extract_colors(Resized, seed).colors
          [] k = "colorAnalysis" -> extract_colors(Resized, seed).analysis
          [] k = "meta" -> meta
          [] OTHER -> extractors(k, Resized, seed).tokens]

\* the pair a walkthrough pass assembles when every extractor reads Resized
ExpectedWalkthrough(seed) ==
    [tokens |->
        [k \in Keys |->
            CASE k = "colorAnalysis" -> extract_colors_with_debug(Resized, seed).analysis
              [] k = "meta" -> meta_walkthrough
              [] OTHER -> extractors_with_debug(k, Resized, seed).tokens],
     debug |->
        [k \in Keys |->
            IF k \in Names THEN extractors_with_debug(k, Resized, seed).debug
            ELSE Absent]]

\* the call just returned and the previous one were the two core paths
ParallelAndSequential ==
    /\ pc = "returned"
    /\ api \in CoreApi
    /\ prev.api \in CoreApi
    /\ prev.seq # attempts.seq

MetaButMode(m) == [m EXCEPT !.parallel = FALSE]

C2_FallbackReplacesEveryEntry ==
    (pc = "returned" /\ failedAt >= 0) =>
        /\ attempts.seq = 1
        /\ seqi = Len(extractor_names)
        /\ \A k \in ExtractorKeys : origin[k] = "seq"
        /\ \A n \in Names : seen[n] = Resized
        /\ api = "tokens" => ret = ExpectedCore(seedUsed, meta_sequential)
        /\ api = "walkthrough" =>
              /\ \A k \in ExtractorKeys :
                    ret.tokens[k] = ExpectedWalkthrough(seedUsed).tokens[k]
              /\ ret.debug = ExpectedWalkthrough(seedUsed).debug

\* C2 witness: the walkthrough returned after a task raised when two results
\* of the concurrent attempt had already been stored.
C2_Witness ==
    /\ pc = "returned"
    /\ api = "walkthrough"
    /\ failedAt = 2

\* C3: the concurrent path submits one task for each of the six extractor
\* names to a pool of six workers, so that all six run at once; it returns
\* only after all six have completed, and the bundle then holds the entry of
\* every extractor (color and colorAnalysis from the color task) and meta.
C3_OneTaskPerExtractor ==
    /\ Cardinality(Names) = 6
    /\ max_workers = 6
    /\ pc = "as_completed" => (futures = Names /\ Queued(task) = {})
    /\ (pc = "returned" /\ api = "tokens" /\ attempts.seq = 0) =>
          /\ \A n \in Names : task[n] = "finished"
          /\ \A k \in Keys : ret[k] # Absent
          /\ ret = ExpectedCore(workerRng, meta_parallel)

\* C3 witness: the concurrent path has returned a bundle.
C3_Witness ==
    /\ pc = "returned"
    /\ api = "tokens"
    /\ attempts.seq = 0
    /\ failedAt = -1

\* the call just returned through the concurrent path
ViaParallel ==
    /\ pc = "returned"
    /\ api \in {"tokens", "walkthrough"}
    /\ attempts.seq = 0

\* C4: the bundle the concurrent path assembles is the same for every
\* completion order of the six tasks: each key holds the result of the
\* extractor of that name, and two concurrent runs on the same results
\* return the same bundle.
C4_CompletionOrderIrrelevant ==
    ViaParallel =>
        /\ api = "tokens" => ret = ExpectedCore(workerRng, meta_parallel)
        /\ api = "walkthrough" => ret = ExpectedWalkthrough(workerRng)
        /\ (prev.api = api /\ prev.seq = 0 /\ prev.seed = seedUsed) => prev.ret = ret

\* C4 witness: a concurrent run whose tasks completed out of submission
\* order has returned right after one whose tasks completed in order, both
\* on the same results.
C4_Witness ==
    /\ ViaParallel
    /\ outOfOrder
    /\ prev.api = api
    /\ prev.seq = 0
    /\ ~prev.ooo
    /\ prev.seed = seedUsed

\* C5: no task is cancelled, whatever happened to the others: a running task
\* stays running until it completes; and the orchestrator neither returns,
\* nor raises, nor runs the sequential pass while a dispatched task is queued
\* or running, so a task that never completes keeps the call from returning.
C5_NoCancelNoTimeout ==
    /\ \A n \in Names : task[n] \in {"none", "queued", "running", "finished"}
    /\ pc \in {"sequential", "returned", "raised", "idle"} =>
          (Running(task) = {} /\ Queued(task) = {})

\* C5 witness: a task has raised, the with block is exiting and another task
\* is still running.
C5_Witness ==
    /\ pc = "exit"
    /\ failedAt >= 0
    /\ Cardinality(Running(task)) >= 2

\* C6: two runs on the same image in the same mode return identical bundles,
\* whatever ran before in the process and whatever the completion order.
C6_Deterministic ==
    (pc = "returned" /\ prev.api = api /\ prev.seq = attempts.seq) => prev.ret = ret

\* C7: the buffer is read-only for every extractor: whichever extractors have
\* run, the buffer the next one is given, and the buffer each one has read,
\* hold the content the preprocessor produced, and each result is the one
\* the extractor computes from that content.
C7_BufferReadOnly ==
    pc \in {"as_completed", "exit", "sequential", "returned", "raised"} =>
        /\ img_resized = Resized
        /\ api # "sequential" => img_bytes = Resized
        /\ \A n \in Names : seen[n] # Absent => seen[n] = Resized
        /\ \A n \in Names \ {"color"} :
              results[n] # Absent =>
                  results[n] = IF api = "walkthrough"
                               THEN extractors_with_debug(n, Resized, 0).tokens
                               ELSE extractors(n, Resized, 0).tokens

\* C7 witness: the sequential pass has run three extractors on the buffer
\* and is about to hand it to the fourth.
C7_Witness ==
    /\ pc = "sequential"
    /\ api \in CoreApi
    /\ seqi = 3
    /\ results["borderRadius"] # Absent

-----------------------------------------------------------------------------
(* quantize_values *)

Abs(x) == IF x < 0 THEN 0 - x ELSE x

\* min(snap_points, key=lambda x: abs(x - v)) with the key shifted: the snap
\* point nearest to v + 3.
closestBiased(v, snap) ==
    LET key(x) == Abs(x - (v + 3))
        i == CHOOSE i \in 1..Len(snap) :
                 /\ \A j \in 1..Len(snap) : key(snap[i]) <= key(snap[j])
                 /\ \A j \in 1..(i - 1) : key(snap[j]) > key(snap[i])
    IN snap[i]

\* min(...) returning the last of the minimal elements instead of the first.
closestLast(v, snap) ==
    LET key(x) == Abs(x - v)
        i == CHOOSE i \in 1..Len(snap) :
                 /\ \A j \in 1..Len(snap) : key(snap[i]) <= key(snap[j])
                 /\ \A j \in (i + 1)..Len(snap) : key(snap[j]) > key(snap[i])
    IN snap[i]

\* max(...) in place of min(...): the farthest snap point.
closestFarthest(v, snap) ==
    LET key(x) == Abs(x - v)
        i == CHOOSE i \in 1..Len(snap) :
                 /\ \A j \in 1..Len(snap) : key(snap[i]) >= key(snap[j])
                 /\ \A j \in 1..(i - 1) : key(snap[j]) < key(snap[i])
    IN snap[i]

\* closest = min(snap_points, key=lambda x: abs(x - v)): Python's min returns
\* the first element, in iteration order, whose key is minimal.
closest(v, snap) ==
    LET key(x) == Abs(x - v)
        i == CHOOSE i \in 1..Len(snap) :
                 /\ \A j \in 1..Len(snap) : key(snap[i]) <= key(snap[j])
                 /\ \A j \in 1..(i - 1) : key(snap[j]) > key(snap[i])
    IN snap[i]

\* sorted(list(set(xs)))
RECURSIVE SortedList(_)
SortedList(S) ==
    IF S = {} THEN <<>>
    ELSE LET m == CHOOSE x \in S : \A y \in S : x <= y
         IN <<m>> \o SortedList(S \ {m})

quantize_values(vs, snap) ==
    IF vs = <<>> THEN <<>>
    ELSE LET snapped == [i \in 1..Len(vs) |-> closest(vs[i], snap)]
         IN SortedList({snapped[i] : i \in 1..Len(vs)})

\* the snap lists of the extractors
snap_spacing == <<4, 8, 12, 16, 24, 32, 48, 64>>
snap_radius == <<0, 4, 6, 8, 12, 16, 24, 32>>
snap_strokes == <<1, 2, 3, 4, 6, 8>>
snap_spacing_debug == <<4, 8, 12, 16, 20, 24, 32, 48, 64>>
snap_radius_debug == <<0, 2, 4, 8, 12, 16, 24, 32>>

\* Inputs of the quantizer check: the extractors' snap lists and every list
\* of one or two distinct snap points in 0..MaxSnap, in either order; values
\* in 0..MaxVal, the midpoints of the wider gaps of the extractors' lists,
\* and one value beyond every list.
SnapLists ==
    {snap_spacing, snap_radius, snap_strokes, snap_spacing_debug, snap_radius_debug}
    \cup {<<a>> : a \in 0..MaxSnap}
    \cup ({<<a, b>> : a, b \in 0..MaxSnap} \ {<<a, a>> : a \in 0..MaxSnap})

ValueDomain == (0..MaxVal) \cup {14, 20, 28, 40, 56, 100}

ValueLists == UNION {[1..n -> ValueDomain] : n \in 0..MaxLen}

\* the orchestrators are not running
OIdle ==
    /\ img = Image(0)
    /\ rng = 0
    /\ api = "none"
    /\ pc = "off"
    /\ img_resized = Image(0)
    /\ img_bytes = Image(0)
    /\ task = <<>>
    /\ workerRng = 0
    /\ results = <<>>
    /\ debug = <<>>
    /\ color_analysis = <<>>
    /\ seqi = 0
    /\ ret = <<>>
    /\ origin = <<>>
    /\ seen = <<>>
    /\ seedUsed = 0
    /\ attempts = <<>>
    /\ outOfOrder = FALSE
    /\ failedAt = -1
    /\ prev = <<>>

InitQ ==
    /\ OIdle
    /\ CIdle
    /\ XIdle
    /\ MIdle
    /\ RIdle
    /\ values \in ValueLists
    /\ snap_points \in SnapLists
    /\ qpc = "start"
    /\ out1 = <<>>
    /\ out2 = <<>>

Quantize ==
    /\ qpc = "start"
    /\ out1' = quantize_values(values, snap_points)
    /\ qpc' = "once"
    /\ UNCHANGED <<values, snap_points, out2>>
    /\ UNCHANGED <<ovars, cvars, xvars, mvars, rvars>>

Requantize ==
    /\ qpc = "once"
    /\ out2' = quantize_values(out1, snap_points)
    /\ qpc' = "twice"
    /\ UNCHANGED <<values, snap_points, out1>>
    /\ UNCHANGED <<ovars, cvars, xvars, mvars, rvars>>

NextQ == Quantize \/ Requantize

SpecQ == InitQ /\ [][NextQ]_vars

-----------------------------------------------------------------------------
(* Properties of quantize_values, checked under SpecQ *)

SnapSet == {snap_points[j] : j \in 1..Len(snap_points)}
OutSet == {out1[k] : k \in 1..Len(out1)}
Ascending(q) == \A k \in 1..(Len(q) - 1) : q[k] < q[k + 1]
Quantized == qpc \in {"once", "twice"}

\* s is a member of the snap list and no member is strictly closer to v
IsNearest(s, v) ==
    /\ s \in SnapSet
    /\ \A t \in SnapSet : Abs(s - v) <= Abs(t - v)

\* v has two different nearest snap points
Halfway(v) == \E s, t \in SnapSet : s # t /\ IsNearest(s, v) /\ IsNearest(t, v)

\* the nearest snap point of v that comes first in snap_points
FirstNearest(v) ==
    snap_points[CHOOSE i \in 1..Len(snap_points) :
                    /\ IsNearest(snap_points[i], v)
                    /\ \A j \in 1..(i - 1) : ~IsNearest(snap_points[j], v)]

\* C8: every element of quantize_values(vs, S) is a member of S and a nearest
\* element of S to some input value, and every input value has a nearest
\* element of S in the output (for vs = [v]: the output is one nearest
\* element of S to v).
C8_NearestSnapPoint ==
    Quantized =>
        /\ \A s \in OutSet : \E i \in 1..Len(values) : IsNearest(s, values[i])
        /\ \A i \in 1..Len(values) : \E s \in OutSet : IsNearest(s, values[i])
        /\ Len(values) = 1 => Len(out1) = 1

\* C8 witness: two values off the snap list of an ascending snap list have
\* been quantized to two different snap points.
C8_Witness ==
    /\ qpc = "once"
    /\ Ascending(snap_points)
    /\ Len(values) = 2
    /\ \A i \in 1..2 : values[i] \notin SnapSet
    /\ Len(out1) = 2

\* C9: quantize_values is idempotent: quantizing its own output against the
\* same snap list gives that output again.
C9_Idempotent == qpc = "twice" => out2 = out1

\* C9 witness: a non-empty output that differs from the input has been
\* quantized a second time.
C9_Witness ==
    /\ qpc = "twice"
    /\ out1 # <<>>
    /\ out1 # values
    /\ \E i \in 1..Len(values) : values[i] \notin SnapSet

\* C10: the output is strictly ascending whatever the order of the input,
\* an empty input gives an empty output, and a value halfway between two
\* snap points goes to the one that comes first in snap_points (the smaller
\* one when snap_points is ascending).
C10_AscendingFirstTie ==
    Quantized =>
        /\ Ascending(out1)
        /\ values = <<>> => out1 = <<>>
        /\ OutSet = {FirstNearest(values[i]) : i \in 1..Len(values)}
        /\ \A i \in 1..Len(values) :
              Halfway(values[i]) /\ Ascending(snap_points)
                  => \A t \in SnapSet :
                        IsNearest(t, values[i]) => FirstNearest(values[i]) <= t

\* C10 witness: a descending input whose second value lies halfway between
\* two snap points of an ascending snap list has been quantized to two
\* snap points.
C10_Witness ==
    /\ qpc = "once"
    /\ Ascending(snap_points)
    /\ Len(values) = 2
    /\ values[1] > values[2]
    /\ Halfway(values[2])
    /\ Len(out1) = 2

-----------------------------------------------------------------------------
(* Color objects.  A Color is read by this file in three spaces: CIELAB    *)
(* (delta_e), OKLCH (l and c in 1/1000, hue h in degrees, NaN when the      *)
(* color is achromatic) and sRGB (channels in 1/255, outside 0..255 when    *)
(* the conversion leaves the gamut).                                        *)

\* float('nan'), the hue of an achromatic color
NaN == -1

Color(lab, l, c, h, srgb) == [lab |-> lab, l |-> l, c |-> c, h |-> h, srgb |-> srgb]

\* Color(f"rgb(r,g,b)").convert("oklch") for centroids, and colors given in OKLCH
ColorTable ==
    << Color(<<0, 0, 0>>, 0, 0, NaN, <<0, 0, 0>>),
       Color(<<1, 0, 0>>, 115, 0, NaN, <<5, 5, 5>>),
       Color(<<100, 0, 0>>, 1000, 0, NaN, <<255, 255, 255>>),
       Color(<<58, -114, 1>>, 600, 300, 180, <<-154, 176, 135>>),
       Color(<<54, 0, 0>>, 600, 0, NaN, <<128, 128, 128>>),
       Color(<<52, 33, 0>>, 600, 100, 0, <<177, 102, 126>>),
       Color(<<57, 0, 0>>, 627, 0, NaN, <<136, 136, 136>>),
       Color(<<53, 80, 67>>, 628, 258, 29, <<255, 0, 0>>),
       Color(<<52, 32, 9>>, 600, 100, 14, <<180, 102, 110>>),
       Color(<<52, 29, 20>>, 600, 100, 30, <<180, 104, 92>>),
       Color(<<55, -35, 0>>, 600, 100, 180, <<35, 147, 130>>),
       Color(<<54, -18, 37>>, 600, 100, 120, <<121, 137, 64>>),
       Color(<<54, 1, 44>>, 600, 100, 90, <<151, 125, 48>>),
       Color(<<55, -32, 20>>, 600, 100, 150, <<81, 145, 96>>),
       Color(<<53, 3, 7>>, 600, 20, 60, <<138, 126, 117>>) >>

Colors == {ColorTable[i] : i \in 1..Len(ColorTable)}

\* c.delta_e(u) squared: the CIE76 distance is Euclidean in CIELAB
delta_e_sq(c, u) ==
    (c.lab[1] - u.lab[1]) * (c.lab[1] - u.lab[1])
    + (c.lab[2] - u.lab[2]) * (c.lab[2] - u.lab[2])
    + (c.lab[3] - u.lab[3]) * (c.lab[3] - u.lab[3])

\* c.delta_e(u) < 3
delta_e_below_3(c, u) == delta_e_sq(c, u) < 3 * 3

\* the deduplication loop comparing with the last kept color only
RECURSIVE uniqueAgainstLast(_, _)
uniqueAgainstLast(colors, kept) ==
    IF colors = <<>> THEN kept
    ELSE LET c == Head(colors)
         IN uniqueAgainstLast(Tail(colors),
                IF kept # <<>> /\ delta_e_below_3(c, kept[Len(kept)])
                THEN kept ELSE Append(kept, c))

\* unique = []; for c in colors: if not any(c.delta_e(u) < 3 ...): unique.append(c)
RECURSIVE unique(_, _)
unique(colors, kept) ==
    IF colors = <<>> THEN kept
    ELSE LET c == Head(colors)
         IN unique(Tail(colors),
                IF \E i \in 1..Len(kept) : delta_e_below_3(c, kept[i])
                THEN kept ELSE Append(kept, c))

\* seq[:n]
Slice(seq, n) == SubSeq(seq, 1, IF Len(seq) < n THEN Len(seq) ELSE n)

-----------------------------------------------------------------------------
(* Color analysis utilities *)

RECURSIVE InsertSorted(_, _)
InsertSorted(x, s) ==
    IF s = <<>> THEN <<x>>
    ELSE IF x <= Head(s) THEN <<x>> \o s
    ELSE <<Head(s)>> \o InsertSorted(x, Tail(s))

\* sorted(hues): a list, duplicates kept
RECURSIVE sorted(_)
sorted(s) == IF s = <<>> THEN <<>> ELSE InsertSorted(Head(s), sorted(Tail(s)))

\* round(num / den * 100): a value of two decimals, in hundredths
Hundredths(num, den) == (2 * 100 * num + den) \div (2 * den)

Min(a, b) == IF a < b THEN a ELSE b
Max(a, b) == IF a > b THEN a ELSE b

\* the index pairs (i, j), i < j, in the order of the nested loops
RECURSIVE PairsFrom(_, _, _)
PairsFrom(i, j, n) ==
    IF i >= n THEN <<>>
    ELSE IF j > n THEN PairsFrom(i + 1, i + 2, n)
    ELSE <<(<<i, j>>)>> \o PairsFrom(i, j + 1, n)

\* the classification of one pair with the difference taken without abs()
relationshipSigned(h1, h2) ==
    LET d == h1 - h2
        diff == IF d > 180 THEN 360 - d ELSE d
    IN [type |-> IF diff < 30 THEN "analogous"
                 ELSE IF 150 < diff /\ diff < 210 THEN "complementary"
                 ELSE IF 110 < diff /\ diff < 130 THEN "triadic"
                 ELSE IF 80 < diff /\ diff < 100 THEN "tetradic"
                 ELSE "none",
        hues |-> <<h1, h2>>, angle |-> diff]

\* the classification of one pair with the complementary band ending below 180
relationshipOpen(h1, h2) ==
    LET d == Abs(h1 - h2)
        diff == IF d > 180 THEN 360 - d ELSE d
    IN [type |-> IF diff < 30 THEN "analogous"
                 ELSE IF 150 < diff /\ diff < 180 THEN "complementary"
                 ELSE IF 110 < diff /\ diff < 130 THEN "triadic"
                 ELSE IF 80 < diff /\ diff < 100 THEN "tetradic"
                 ELSE "none",
        hues |-> <<h1, h2>>, angle |-> diff]

\* the body of the pair loop of analyze_color_harmony
relationship(h1, h2) ==
    LET d == Abs(h1 - h2)
        diff == IF d > 180 THEN 360 - d ELSE d
    IN [type |-> IF diff < 30 THEN "analogous"
                 ELSE IF 150 < diff /\ diff < 210 THEN "complementary"
                 ELSE IF 110 < diff /\ diff < 130 THEN "triadic"
                 ELSE IF 80 < diff /\ diff < 100 THEN "tetradic"
                 ELSE "none",
        hues |-> <<h1, h2>>, angle |-> diff]

\* hues: the hues (mod 360) of the colors with chroma above 0.02, sorted
harmony_hues(colors) ==
    LET chromatic == SelectSeq(colors, LAMBDA c : c.c > 20)
        defined == SelectSeq(chromatic, LAMBDA c : c.h # NaN)
    IN sorted([i \in 1..Len(defined) |-> defined[i].h % 360])

\* relationships, before the [:5] of the return statement
harmony_relationships(hues) ==
    LET pairs == PairsFrom(1, 2, Len(hues))
        all == [p \in 1..Len(pairs) |->
                   relationship(hues[pairs[p][1]], hues[pairs[p][2]])]
    IN SelectSeq(all, LAMBDA r : r.type # "none")

harmony_scores(relationships) ==
    [t \in {"analogous", "complementary", "triadic", "tetradic"} |->
        Len(SelectSeq(relationships, LAMBDA r : r.type = t))]

analyze_color_harmony(colors) ==
    LET chromatic == SelectSeq(colors, LAMBDA c : c.c > 20)
        hues == harmony_hues(colors)
        spread == hues[Len(hues)] - hues[1]
        hue_range == IF spread > 180 THEN 360 - spread ELSE spread
        relationships == harmony_relationships(hues)
        scores == harmony_scores(relationships)
        verdict ==
            IF hue_range < 15
            THEN <<"monochromatic", Hundredths(15 - hue_range, 15)>>
            ELSE IF scores["complementary"] > 0 /\ scores["analogous"] > 0
            THEN <<"split-complementary", 80>>
            ELSE IF scores["complementary"] >= scores["analogous"]
            THEN IF scores["complementary"] > 0
                 THEN <<"complementary",
                        Min(100, Hundredths(scores["complementary"], Len(hues)))>>
                 ELSE <<"analogous", 50>>
            ELSE IF scores["triadic"] >= 2
            THEN <<"triadic", Min(100, Hundredths(scores["triadic"], 3))>>
            ELSE IF scores["tetradic"] >= 3
            THEN <<"tetradic", Min(100, Hundredths(scores["tetradic"], 4))>>
            ELSE <<"analogous",
                   Min(100, Hundredths(scores["analogous"], Max(1, Len(hues) - 1)))>>
    IN IF Len(colors) < 2
       THEN [type |-> "monochromatic", strength |-> 100, relationships |-> <<>>]
       ELSE IF Len(chromatic) < 2
       THEN [type |-> "achromatic", strength |-> 100, relationships |-> <<>>]
       ELSE IF Len(hues) < 2
       THEN [type |-> "monochromatic", strength |-> 100, relationships |-> <<>>]
       ELSE [type |-> verdict[1], strength |-> verdict[2],
             hueRange |-> hue_range, relationships |-> Slice(relationships, 5)]

\* the weight of one color of analyze_color_temperature and the side it
\* counts for, in 1/2000: 1 for an achromatic color, the chroma otherwise,
\* halved for a hue between the warm and the cool ranges
temperature_weight(c) ==
    IF c.c < 20 \/ c.h = NaN
    THEN [warm |-> 0, cool |-> 0, total |-> 2000]
    ELSE LET hue == c.h % 360
             weight == 2 * c.c
             warm_dist == Min(Abs(hue - 60), Abs(hue - 300))
             cool_dist == Min(Abs(hue - 120), Abs(hue - 240))
         IN IF hue <= 60 \/ hue >= 300
            THEN [warm |-> weight, cool |-> 0, total |-> weight]
            ELSE IF 120 <= hue /\ hue <= 240
            THEN [warm |-> 0, cool |-> weight, total |-> weight]
            ELSE IF warm_dist < cool_dist
            THEN [warm |-> weight \div 2, cool |-> 0, total |-> weight]
            ELSE [warm |-> 0, cool |-> weight \div 2, total |-> weight]

\* the sums of the loop of analyze_color_temperature
RECURSIVE temperature_weights(_)
temperature_weights(colors) ==
    IF colors = <<>> THEN [warm |-> 0, cool |-> 0, total |-> 0]
    ELSE LET w == temperature_weight(Head(colors))
             rest == temperature_weights(Tail(colors))
         IN [warm |-> w.warm + rest.warm, cool |-> w.cool + rest.cool,
             total |-> w.total + rest.total]

analyze_color_temperature(colors) ==
    LET w == temperature_weights(colors)
        label ==
            IF 10 * w.warm > 6 * w.total THEN <<"warm", "warm">>
            ELSE IF 10 * w.cool > 6 * w.total THEN <<"cool", "cool">>
            ELSE IF 10 * Abs(w.warm - w.cool) < 2 * w.total
            THEN <<"neutral", "balanced">>
            ELSE IF w.warm > w.cool THEN <<"warm-neutral", "warm">>
            ELSE <<"cool-neutral", "cool">>
    IN IF Len(colors) = 0 \/ w.total = 0
       THEN [temperature |-> "neutral", warmRatio |-> 50,
             dominantTone |-> "neutral"]
       ELSE [temperature |-> label[1],
             warmRatio |-> Hundredths(w.warm, w.total),
             coolRatio |-> Hundredths(w.cool, w.total),
             dominantTone |-> label[2]]

\* linearize(v) of relative_luminance for v = i/255, in 1/100000:
\* v / 12.92 up to 0.03928, ((v + 0.055) / 1.055) ** 2.4 above
linear_table ==
    <<
      0, 30, 61, 91, 121, 152, 182, 212, 243, 273, 304, 335,
      368, 402, 439, 478, 518, 561, 605, 651, 700, 750, 802, 857,
      913, 972, 1033, 1096, 1161, 1229, 1298, 1370, 1444, 1521, 1600, 1681,
      1764, 1850, 1938, 2029, 2122, 2217, 2315, 2416, 2519, 2624, 2732, 2843,
      2956, 3071, 3190, 3310, 3434, 3560, 3689, 3820, 3955, 4092, 4231, 4374,
      4519, 4667, 4817, 4971, 5127, 5286, 5448, 5613, 5781, 5951, 6125, 6301,
      6480, 6663, 6848, 7036, 7227, 7421, 7619, 7819, 8022, 8228, 8438, 8650,
      8866, 9084, 9306, 9531, 9759, 9990, 10224, 10462, 10702, 10946, 11193, 11444,
      11697, 11954, 12214, 12477, 12744, 13014, 13287, 13563, 13843, 14126, 14413, 14703,
      14996, 15293, 15593, 15896, 16203, 16513, 16827, 17144, 17465, 17789, 18116, 18447,
      18782, 19120, 19462, 19807, 20156, 20508, 20864, 21223, 21586, 21953, 22323, 22697,
      23074, 23455, 23840, 24228, 24620, 25016, 25415, 25818, 26225, 26636, 27050, 27468,
      27889, 28315, 28744, 29177, 29614, 30054, 30499, 30947, 31399, 31855, 32314, 32778,
      33245, 33716, 34191, 34670, 35153, 35640, 36131, 36625, 37124, 37626, 38133, 38643,
      39157, 39676, 40198, 40724, 41254, 41789, 42327, 42869, 43415, 43966, 44520, 45079,
      45641, 46208, 46778, 47353, 47932, 48515, 49102, 49693, 50289, 50888, 51492, 52100,
      52712, 53328, 53948, 54572, 55201, 55834, 56471, 57112, 57758, 58408, 59062, 59720,
      60383, 61050, 61721, 62396, 63076, 63760, 64448, 65141, 65837, 66539, 67244, 67954,
      68669, 69387, 70110, 70838, 71569, 72306, 73046, 73791, 74540, 75294, 76052, 76815,
      77582, 78354, 79130, 79910, 80695, 81485, 82279, 83077, 83880, 84687, 85499, 86316,
      87137, 87962, 88792, 89627, 90466, 91310, 92158, 93011, 93869, 94731, 95597, 96469,
      97345, 98225, 99110, 100000 >>

\* max(0, min(1, v)), channels in 1/255
clamp(v) == Max(0, Min(255, v))

linearize(v) == linear_table[v + 1]

\* relative_luminance(c), in 1/100000
relative_luminance(c) ==
    LET r == linearize(clamp(c.srgb[1]))
        g == linearize(clamp(c.srgb[2]))
        b == linearize(clamp(c.srgb[3]))
    IN (2126 * r + 7152 * g + 722 * b) \div 10000

\* the ratio taken as (l1 + 0.05) / (l2 + 0.05), without ordering the two
calculate_contrast_ratio_unordered(color1, color2) ==
    [num |-> relative_luminance(color1) + 5000,
     den |-> relative_luminance(color2) + 5000]

\* (lighter + 0.05) / (darker + 0.05), as a fraction
calculate_contrast_ratio(color1, color2) ==
    LET l1 == relative_luminance(color1)
        l2 == relative_luminance(color2)
        lighter == Max(l1, l2)
        darker == Min(l1, l2)
    IN [num |-> lighter + 5000, den |-> darker + 5000]

\* ratio >= tenths / 10
RatioAtLeast(ratio, tenths) == 10 * ratio.num >= tenths * ratio.den

\* analyze_contrast_pairs from its pair loop on
contrast_pairs_report(colors) ==
    LET index == PairsFrom(1, 2, Len(colors))
        pairs == [p \in 1..Len(index) |->
            LET ratio == calculate_contrast_ratio(colors[index[p][1]],
                                                  colors[index[p][2]])
            IN [color1Index |-> index[p][1] - 1,
                color2Index |-> index[p][2] - 1,
                ratio |-> Hundredths(ratio.num, ratio.den),
                wcag |-> [AA_normal |-> RatioAtLeast(ratio, 45),
                          AA_large |-> RatioAtLeast(ratio, 30),
                          AAA_normal |-> RatioAtLeast(ratio, 70),
                          AAA_large |-> RatioAtLeast(ratio, 45)]]]
        total_pairs == Len(pairs)
        aa_pass == Len(SelectSeq(pairs, LAMBDA p : p.wcag.AA_normal))
        aaa_pass == Len(SelectSeq(pairs, LAMBDA p : p.wcag.AAA_normal))
    IN [pairs |-> pairs,
        summary |-> [totalPairs |-> total_pairs,
                     aaPassCount |-> aa_pass,
                     aaaPassCount |-> aaa_pass,
                     accessibilityScore |->
                         IF total_pairs > 0
                         THEN Hundredths(aa_pass, total_pairs) ELSE 0]]

analyze_contrast_pairs(colors) ==
    IF Len(colors) < 2
    THEN [pairs |-> <<>>, accessibilityScore |-> 100]
    ELSE contrast_pairs_report(colors)

-----------------------------------------------------------------------------
(* SpecC: the tail of extract_colors, from the ranked centroids on *)

\* extract_colors(img, k=12): cv2.kmeans returns k centers
k == 12

\* the k clusters sharing a few distinct centers in turn
Cycled(d) == [i \in 1..k |-> d[((i - 1) % Len(d)) + 1]]

\* k centers taken from the table at a fixed stride
Progression(start, step) ==
    [i \in 1..k |-> ColorTable[((start + (i - 1) * step) % Len(ColorTable)) + 1]]

Progressions ==
    {Progression(start, step) :
        start \in 0..(Len(ColorTable) - 1), step \in 0..(Len(ColorTable) - 1)}

\* centroids around the hue wheel at lightness 0.6 and chroma 0.1
Wheel ==
    << Color(<<52, 33, 0>>, 600, 100, 0, <<177, 102, 126>>),
       Color(<<52, 32, 7>>, 600, 100, 10, <<179, 102, 114>>),
       Color(<<54, -18, 37>>, 600, 100, 120, <<121, 137, 64>>),
       Color(<<54, -21, 34>>, 600, 100, 125, <<114, 139, 69>>),
       Color(<<55, -35, 0>>, 600, 100, 180, <<35, 147, 130>>),
       Color(<<54, -8, -31>>, 600, 100, 240, <<65, 136, 182>>),
       Color(<<52, 33, -7>>, 600, 100, 350, <<173, 102, 137>>) >>

\* the k clusters sharing up to MaxWheel centers of the wheel, by rising hue
Wheels ==
    {Cycled([i \in 1..Len(d) |-> Wheel[d[i]]]) :
        d \in UNION {{e \in [1..n -> 1..Len(Wheel)] :
                         \A i, j \in 1..n : i < j => e[i] < e[j]} :
                     n \in 1..MaxWheel}}

RankedLists ==
    {Cycled(d) : d \in UNION {[1..n -> Colors] : n \in 1..MaxPal}}
        \cup Progressions \cup Wheels

InitC ==
    /\ OIdle
    /\ QIdle
    /\ XIdle
    /\ MIdle
    /\ RIdle
    /\ ranked \in RankedLists
    /\ cpc = "start"
    /\ unique_8 = <<>>
    /\ harmony = <<>>
    /\ contrasts = <<>>
    /\ temperature = <<>>

\* lines 604-609
Deduplicate ==
    /\ cpc = "start"
    /\ unique_8' = Slice(unique(ranked, <<>>), 8)
    /\ cpc' = "deduplicated"
    /\ UNCHANGED <<ranked, harmony, contrasts, temperature>>
    /\ UNCHANGED <<ovars, qvars, xvars, mvars, rvars>>

\* lines 611-613
Analyze ==
    /\ cpc = "deduplicated"
    /\ harmony' = analyze_color_harmony(unique_8)
    /\ contrasts' = analyze_contrast_pairs(unique_8)
    /\ temperature' = analyze_color_temperature(unique_8)
    /\ cpc' = "analysed"
    /\ UNCHANGED <<ranked, unique_8>>
    /\ UNCHANGED <<ovars, qvars, xvars, mvars, rvars>>

NextC == Deduplicate \/ Analyze

SpecC == InitC /\ [][NextC]_vars

-----------------------------------------------------------------------------
(* Properties of the color analysis, checked under SpecC *)

\* position in ranked of the first centroid equal to c
FirstIndex(c) == CHOOSE i \in 1..k : ranked[i] = c /\ \A j \in 1..(i - 1) : ranked[j] # c

\* C11: the palette kept by extract_colors has at most 8 entries, no two kept
\* colors are within Delta-E 3 of each other, the kept colors come in the order
\* of the population ranking, and the most populous centroid is kept first.
C11_PaletteDeduplicated ==
    cpc # "start" =>
        /\ Len(unique_8) <= 8
        /\ \A i, j \in 1..Len(unique_8) :
               i < j => ~delta_e_below_3(unique_8[i], unique_8[j])
        /\ \A i \in 1..Len(unique_8) : \E j \in 1..k : ranked[j] = unique_8[i]
        /\ \A i, j \in 1..Len(unique_8) :
               i < j => FirstIndex(unique_8[i]) < FirstIndex(unique_8[j])
        /\ unique_8 # <<>> /\ unique_8[1] = ranked[1]

\* more than eight centroids survive the deduplication, which dropped one
C11_Witness ==
    /\ cpc # "start"
    /\ Len(unique_8) = 8
    /\ \E i, j \in 1..9 : i < j /\ delta_e_below_3(ranked[i], ranked[j])
    /\ Cardinality({ranked[i] : i \in 1..k}) > 9

\* the palette listed in the opposite order
Reverse(s) == [i \in 1..Len(s) |-> s[Len(s) + 1 - i]]

\* C12: the class and the angle of a pair of hues do not depend on the order
\* of the pair, and the harmony report does not depend on the order of the
\* palette's colors.
C12_RelationshipSymmetric ==
    cpc = "analysed" =>
        LET hs == harmony_hues(unique_8)
        IN /\ \A i, j \in 1..Len(hs) :
                  /\ relationship(hs[i], hs[j]).type = relationship(hs[j], hs[i]).type
                  /\ relationship(hs[i], hs[j]).angle = relationship(hs[j], hs[i]).angle
           /\ harmony = analyze_color_harmony(Reverse(unique_8))

C12_Witness ==
    /\ cpc = "analysed"
    /\ Len(harmony_hues(unique_8)) >= 2
    /\ unique_8 # Reverse(unique_8)
    /\ harmony.relationships # <<>>

\* C13: a contrast ratio lies in [1, 21], is 1 for a color with itself and is
\* the same for (c1, c2) and (c2, c1).
C13_ContrastRatioBounded ==
    cpc = "analysed" =>
        \A i, j \in 1..Len(unique_8) :
            LET r == calculate_contrast_ratio(unique_8[i], unique_8[j])
            IN /\ r.den <= r.num
               /\ r.num <= 21 * r.den
               /\ (i = j => r.num = r.den)
               /\ r = calculate_contrast_ratio(unique_8[j], unique_8[i])

\* black against white, white listed second, and a color outside the sRGB gamut
C13_Witness ==
    /\ cpc = "analysed"
    /\ \E i, j \in 1..Len(unique_8) :
           /\ i < j
           /\ relative_luminance(unique_8[i]) < relative_luminance(unique_8[j])
           /\ LET r == calculate_contrast_ratio(unique_8[i], unique_8[j])
              IN r.num = 21 * r.den
    /\ \E i \in 1..Len(unique_8) : unique_8[i].srgb[1] < 0

\* the colors of the palette with chroma above 0.02
Chromatic == SelectSeq(unique_8, LAMBDA c : c.c > 20)

-----------------------------------------------------------------------------
(* The extractors from their measurements on.  What the OpenCV calls of an *)
(* extractor measure on the image is the input; the Python code applied to *)
(* the measurement is modelled as written.                                  *)

\* a row of stats[:, :4], a cv2.boundingRect: x, y, width, height
Box(x, y, w, h) == <<x, y, w, h>>

\* A synthetic screenshot: a background of one gray level and solid blocks of
\* another, none touching the border or another block, listed in raster order.
Layout(w, h, bg, fg, blocks) ==
    [w |-> w, h |-> h, bg |-> bg, fg |-> fg, blocks |-> blocks]

\* Scenario A: a flat 64x64 image
Uniform(gray) == Layout(64, 64, gray, gray, <<>>)

\* Scenario C: two blocks, side by side or stacked, gap pixels apart
TwoBlocks(size, gap, stacked, bg, fg) ==
    Layout(512, 512, bg, fg,
           IF stacked
           THEN <<Box(8, 8, 40, size), Box(8, 8 + size + gap, 40, size)>>
           ELSE <<Box(8, 8, size, 40), Box(8 + size + gap, 8, size, 40)>>)

\* cv2.threshold(gray, 0, 255, cv2.THRESH_OTSU): the threshold Otsu's method
\* picks is 0 on one gray level and the lower level on two
otsu(layout) ==
    IF layout.blocks = <<>> THEN 0 ELSE Min(layout.bg, layout.fg)

\* boxes = stats[1:, :4] of cv2.connectedComponentsWithStats(bw): the
\* components of the pixels above the threshold
connected_components(layout) ==
    IF layout.bg > otsu(layout)
    THEN <<Box(0, 0, layout.w, layout.h)>>
    ELSE IF layout.fg > otsu(layout) THEN layout.blocks
    ELSE <<>>

RECURSIVE Flatten(_)
Flatten(ss) == IF ss = <<>> THEN <<>> ELSE Head(ss) \o Flatten(Tail(ss))

\* the deltas loop of extract_spacing
spacing_deltas(boxes) ==
    LET pairs == PairsFrom(1, 2, Len(boxes))
    IN Flatten([p \in 1..Len(pairs) |->
           LET a == boxes[pairs[p][1]]
               b == boxes[pairs[p][2]]
               dx == Abs(a[1] - b[1])
               dy == Abs(a[2] - b[2])
           IN (IF 2 < dx /\ dx < 200 THEN <<dx>> ELSE <<>>)
              \o (IF 2 < dy /\ dy < 200 THEN <<dy>> ELSE <<>>)])

\* extract_spacing from the thresholded image on
spacing_scale(layout) ==
    quantize_values(Slice(spacing_deltas(connected_components(layout)), 100),
                    snap_spacing)

\* cv2.findContours(thresh, cv2.RETR_TREE, ...) on gray > 240, then
\* [cv2.boundingRect(c) for c in contours if cv2.contourArea(c) > 100]:
\* a bright block gives its outline; a bright background gives the image
\* border and, around each block, the hole's border one pixel outside it
contour_boxes(layout) ==
    LET blocks == layout.blocks
        outlines == SelectSeq(blocks, LAMBDA b : (b[3] - 1) * (b[4] - 1) > 100)
        holes == [i \in 1..Len(blocks) |->
                     Box(blocks[i][1] - 1, blocks[i][2] - 1,
                         blocks[i][3] + 2, blocks[i][4] + 2)]
    IN IF layout.bg > 240
       THEN <<Box(0, 0, layout.w, layout.h)>>
            \o (IF layout.fg > 240 THEN <<>> ELSE holes)
       ELSE IF layout.fg > 240 THEN outlines
       ELSE <<>>

\* boxes.sort(key=lambda b: (b[1], b[0]))
RECURSIVE InsertBox(_, _)
InsertBox(b, s) ==
    IF s = <<>> THEN <<b>>
    ELSE IF b[2] < Head(s)[2] \/ (b[2] = Head(s)[2] /\ b[1] <= Head(s)[1])
    THEN <<b>> \o s
    ELSE <<Head(s)>> \o InsertBox(b, Tail(s))

RECURSIVE sort_boxes(_)
sort_boxes(s) ==
    IF s = <<>> THEN <<>> ELSE InsertBox(Head(s), sort_boxes(Tail(s)))

\* the gaps loop of extract_spacing_with_debug
spacing_gaps(boxes) ==
    Flatten([i \in 1..(Len(boxes) - 1) |->
        LET hgap == Max(0, boxes[i + 1][1] - (boxes[i][1] + boxes[i][3]))
            vgap == Max(0, boxes[i + 1][2] - (boxes[i][2] + boxes[i][4]))
        IN (IF 2 < hgap /\ hgap < 100 THEN <<hgap>> ELSE <<>>)
           \o (IF 2 < vgap /\ vgap < 100 THEN <<vgap>> ELSE <<>>)])

\* extract_spacing_with_debug's tokens from the thresholded image on
spacing_scale_with_debug(layout) ==
    LET gaps == spacing_gaps(sort_boxes(contour_boxes(layout)))
    IN IF gaps # <<>>
       THEN quantize_values(Slice(gaps, 100), snap_spacing_debug)
       ELSE <<8, 16, 24>>


\* A contour as extract_border_radius reads it: cv2.contourArea,
\* len(approxPolyDP) and peri / (2 * np.pi) in pixels
Contour(area, approx, radius) ==
    [area |-> area, approx |-> approx, radius |-> radius]

\* the radii loop of extract_border_radius
border_radii(contours) ==
    LET kept == SelectSeq(contours, LAMBDA cnt : ~(cnt.area < 200) /\ cnt.approx >= 4)
    IN [i \in 1..Len(kept) |-> kept[i].radius]

radius_scale(contours) ==
    quantize_values(Slice(border_radii(contours), 50), snap_radius)

\* A contour as extract_border_radius_with_debug reads it: len(contour) and,
\* for its corners of angle in (1.2, 2.0), min(|v1|, |v2|) * 0.3 in pixels
CornerContour(points, corners) == [points |-> points, corners |-> corners]

\* the radii loop of extract_border_radius_with_debug
corner_radii(contours) ==
    LET kept == SelectSeq(contours, LAMBDA contour : ~(contour.points < 8))
    IN Flatten([i \in 1..Len(kept) |-> kept[i].corners])

radius_scale_with_debug(contours) ==
    LET radii == corner_radii(contours)
    IN IF radii # <<>>
       THEN quantize_values(Slice(radii, 50), snap_radius_debug)
       ELSE <<0, 4, 8>>

\* extract_grid from the two jump counts on
grid_shape(cols, rows) == [columns |-> Max(1, cols), rows |-> Max(1, rows)]

\* int(np.median(h_gaps))
median(xs) ==
    LET s == sorted(xs)
        n == Len(s)
    IN IF n % 2 = 1 THEN s[(n + 1) \div 2]
       ELSE (s[n \div 2] + s[n \div 2 + 1]) \div 2

\* extract_grid_with_debug from the peaks of the horizontal projection on
grid_shape_with_debug(h_peaks) ==
    LET h_gaps == IF Len(h_peaks) > 1
                  THEN [i \in 1..(Len(h_peaks) - 1) |-> h_peaks[i + 1] - h_peaks[i]]
                  ELSE <<>>
    IN [columns |-> IF Len(h_peaks) >= 12 THEN 12 ELSE Max(1, Len(h_peaks)),
        gutter |-> IF h_gaps # <<>> THEN median(h_gaps) ELSE 16]

\* the level ladder of extract_shadows; strength in 1/100
elevation_level(strength) ==
    IF strength < 200 THEN 0
    ELSE IF strength < 500 THEN 1
    ELSE IF strength < 1200 THEN 2
    ELSE 3

\* the level ladder of extract_shadows_with_debug; depth_variance in 1/1000
elevation_level_with_debug(depth_variance) ==
    IF depth_variance < 20 THEN 0
    ELSE IF depth_variance < 50 THEN 1
    ELSE IF depth_variance < 120 THEN 2
    ELSE 3

\* np.sum(l_channel in [lo, hi)): the pixels of the levels lo..hi-1, the L
\* channel given as runs <<level, pixels>>
RECURSIVE pixels_between(_, _, _)
pixels_between(l_channel, lo, hi) ==
    IF l_channel = <<>> THEN 0
    ELSE (IF lo <= Head(l_channel)[1] /\ Head(l_channel)[1] < hi
          THEN Head(l_channel)[2] ELSE 0)
         + pixels_between(Tail(l_channel), lo, hi)

\* round(num / den, 2) in hundredths: Python rounds an exact tie to even
round2(num, den) ==
    LET f == (100 * num) \div den
        r == (100 * num) % den
    IN IF 2 * r < den THEN f
       ELSE IF 2 * r > den THEN f + 1
       ELSE IF f % 2 = 0 THEN f ELSE f + 1

\* the distribution with the middle bucket taken as hist[85:171]
luminance_distribution_overlapping(l_channel) ==
    LET total == pixels_between(l_channel, 0, 256)
        dark == pixels_between(l_channel, 0, 85)
        mid == pixels_between(l_channel, 85, 171)
        light == pixels_between(l_channel, 170, 256)
    IN [pixels |-> <<dark, mid, light>>,
        dark |-> round2(dark, total),
        mid |-> round2(mid, total),
        light |-> round2(light, total)]

\* hist[:85], hist[85:170], hist[170:] of the normalised histogram, and the
\* rounded fractions of the distribution entry
luminance_distribution(l_channel) ==
    LET total == pixels_between(l_channel, 0, 256)
        dark == pixels_between(l_channel, 0, 85)
        mid == pixels_between(l_channel, 85, 170)
        light == pixels_between(l_channel, 170, 256)
    IN [pixels |-> <<dark, mid, light>>,
        dark |-> round2(dark, total),
        mid |-> round2(mid, total),
        light |-> round2(light, total)]

\* depth_style from the unrounded ratios
depth_style(l_channel) ==
    LET total == pixels_between(l_channel, 0, 256)
        dark == pixels_between(l_channel, 0, 85)
        mid == pixels_between(l_channel, 85, 170)
        light == pixels_between(l_channel, 170, 256)
    IN IF 10 * dark > 4 * total /\ 10 * light > 2 * total THEN "high-contrast"
       ELSE IF 10 * dark > 5 * total THEN "dark-dominant"
       ELSE IF 10 * light > 5 * total THEN "light-dominant"
       ELSE IF 10 * mid > 6 * total THEN "flat"
       ELSE "balanced"

\* shadow_color_data = None
Null == [space |-> "None"]

\* dark_mask = l_channel < 50; the mean color of its pixels in OKLCH when
\* np.sum(dark_mask) > 100
shadow_color_data(l_channel, avg_dark) ==
    IF pixels_between(l_channel, 0, 50) > 100
    THEN [space |-> "oklch", l |-> avg_dark.l, c |-> avg_dark.c,
          h |-> IF avg_dark.h = NaN \/ avg_dark.h = 0 THEN 0 ELSE avg_dark.h]
    ELSE Null

\* the tail of extract_strokes without the default of an empty sample
stroke_scale_no_default(widths, edge_widths) ==
    LET sample == IF widths = <<>> \/ \A i \in 1..Len(widths) : widths[i] < 5
                  THEN edge_widths ELSE widths
        full_widths == [i \in 1..Len(Slice(sample, 200)) |-> sample[i] * 2]
        scale == quantize_values(full_widths, [i \in 1..Len(snap_strokes) |->
                                                  10 * snap_strokes[i]])
    IN [i \in 1..Len(scale) |-> scale[i] \div 10]

\* extract_strokes from the distance samples on; samples in 1/10 pixel
stroke_scale(widths, edge_widths) ==
    LET sample == IF widths = <<>> \/ \A i \in 1..Len(widths) : widths[i] < 5
                  THEN edge_widths ELSE widths
        full_widths == [i \in 1..Len(Slice(sample, 200)) |-> sample[i] * 2]
        scale == quantize_values(full_widths, [i \in 1..Len(snap_strokes) |->
                                                  10 * snap_strokes[i]])
    IN IF sample = <<>> THEN <<1>>
       ELSE [i \in 1..Len(scale) |-> scale[i] \div 10]

\* extract_strokes_with_debug from the distance samples on
stroke_scale_with_debug(widths, edge_widths) ==
    LET sample == IF widths = <<>> \/ \A i \in 1..Len(widths) : widths[i] < 5
                  THEN edge_widths ELSE widths
        full_widths == IF sample # <<>>
                       THEN [i \in 1..Len(Slice(sample, 200)) |-> sample[i] * 2]
                       ELSE <<10>>
        scale == quantize_values(full_widths, [i \in 1..Len(snap_strokes) |->
                                                  10 * snap_strokes[i]])
    IN [i \in 1..Len(scale) |-> scale[i] \div 10]

\* the result list of extract_colors
palette(colors) ==
    [i \in 1..Len(colors) |->
        [space |-> "oklch", l |-> colors[i].l, c |-> colors[i].c,
         h |-> IF colors[i].h = NaN THEN 0 ELSE colors[i].h]]

\* extract_colors from the ranked centroids on
color_tokens(centroids) ==
    LET kept == Slice(unique(centroids, <<>>), 8)
    IN [colors |-> palette(kept),
        analysis |-> [harmony |-> analyze_color_harmony(kept),
                      contrast |-> analyze_contrast_pairs(kept),
                      temperature |-> analyze_color_temperature(kept)]]

\* extract_colors_with_debug from the ranked centroids on: the visuals and
\* steps index contrasts['summary']
color_tokens_with_debug(centroids) ==
    LET kept == Slice(unique(centroids, <<>>), 8)
        contrast == analyze_contrast_pairs(kept)
    IN IF "summary" \in DOMAIN contrast
       THEN [tokens |-> palette(kept),
             analysis |-> [harmony |-> analyze_color_harmony(kept),
                           contrast |-> contrast,
                           temperature |-> analyze_color_temperature(kept)]]
       ELSE [raised |-> "KeyError: 'summary'"]

-----------------------------------------------------------------------------
(* SpecX: one extractor, core and walkthrough, applied to one measurement *)

core_tokens(name, m) ==
    CASE name = "color" -> color_tokens(m.centroids)
      [] name = "spacing" -> spacing_scale(m.layout)
      [] name = "borderRadius" -> radius_scale(m.contours)
      [] name = "grid" -> grid_shape(m.cols, m.rows)
      [] name = "elevation" ->
             [elevation |-> elevation_level(m.strength),
              shadowStrength |-> m.strength,
              depthStyle |-> depth_style(m.l_channel),
              distribution |-> luminance_distribution(m.l_channel),
              shadowColor |-> shadow_color_data(m.l_channel, m.avg_dark)]
      [] name = "strokeWidth" -> stroke_scale(m.widths, m.edge_widths)

walkthrough_tokens(name, m) ==
    CASE name = "color" -> color_tokens_with_debug(m.centroids)
      [] name = "spacing" -> spacing_scale_with_debug(m.layout)
      [] name = "borderRadius" -> radius_scale_with_debug(m.contours_debug)
      [] name = "grid" -> grid_shape_with_debug(m.h_peaks)
      [] name = "elevation" ->
             [elevation |-> elevation_level_with_debug(m.depth_variance),
              shadowStrength |-> m.strength,
              depthStyle |-> depth_style(m.l_channel),
              distribution |-> luminance_distribution(m.l_channel),
              shadowColor |-> shadow_color_data(m.l_channel, m.avg_dark),
              depthMetrics |-> [depthVariance |-> m.depth_variance,
                                hasDepthLayers |-> m.depth_variance > 30]]
      [] name = "strokeWidth" -> stroke_scale_with_debug(m.widths, m.edge_widths)

\* lists of at most MaxLen elements of S
Lists(S) == UNION {[1..n -> S] : n \in 0..MaxLen}

\* (background, block) gray levels
Polarities == {<<0, 255>>, <<200, 0>>, <<255, 0>>}

Layouts ==
    {Uniform(gray) : gray \in {0, 200, 255}}
    \cup {TwoBlocks(size, gap, stacked, p[1], p[2]) :
             size \in {4, 16, 40, 100, 184}, gap \in {8, 16},
             stacked \in BOOLEAN, p \in Polarities}

Contours ==
    {Contour(150, 4, 8), Contour(400, 3, 11), Contour(400, 4, 11),
     Contour(900, 8, 17)}

CornerContours ==
    {CornerContour(4, <<2>>), CornerContour(12, <<3, 9>>), CornerContour(30, <<>>)}

PeakLists ==
    {<<>>, <<10>>, <<10, 40>>, <<10, 40, 45>>,
     [i \in 1..12 |-> 20 * i], [i \in 1..13 |-> 20 * i]}

\* a uniform image under heuristic_depth: the perspective prior alone, a
\* ramp clipped at its 2nd and 98th percentiles, of variance 0.09
flat_depth_variance == 90

\* the L channel of a 64 x 64 image of one level
OneLevel(level) == <<(<<level, 64 * 64>>)>>

\* L channels of a 64 x 64 image of three levels: the levels next to the
\* bucket limits 50, 85 and 170, the pixel counts next to 100 and even splits
LChannels ==
    {<<(<<lv[1], n[1]>>), (<<lv[2], n[2]>>), (<<lv[3], 64 * 64 - n[1] - n[2]>>)>> :
        lv \in {<<10, 84, 85>>, <<49, 50, 255>>, <<49, 169, 170>>, <<84, 85, 170>>},
        n \in {<<99, 1>>, <<100, 0>>, <<101, 3000>>, <<512, 512>>,
                <<1365, 1365>>, <<1376, 1376>>, <<2048, 1024>>, <<41, 41>>}}

\* np.mean(img[dark_mask]) as a color: black where the darkest level is 0,
\* otherwise a dark gray, a dark red or a navy
DarkColors(l_channel) ==
    IF l_channel[1][1] = 0
    THEN {Color(<<0, 0, 0>>, 0, 0, NaN, <<0, 0, 0>>)}
    ELSE {Color(<<3, 0, 0>>, 145, 0, NaN, <<10, 10, 10>>),
          Color(<<7, 20, 8>>, 209, 65, 25, <<48, 8, 8>>),
          Color(<<4, 12, -25>>, 171, 77, 275, <<8, 8, 48>>)}

Measurements(name) ==
    CASE name = "color" ->
             {[centroids |-> r] : r \in {Cycled(<<c>>) : c \in Colors} \cup Progressions}
      [] name = "spacing" -> {[layout |-> l] : l \in Layouts}
      [] name = "borderRadius" ->
             {[contours |-> cs, contours_debug |-> ds] :
                 cs \in Lists(Contours), ds \in Lists(CornerContours)}
      [] name = "grid" ->
             {[cols |-> c, rows |-> r, h_peaks |-> ps] :
                 c \in 0..2, r \in 0..2, ps \in PeakLists}
      [] name = "elevation" ->
             UNION {{[strength |-> 0, depth_variance |-> flat_depth_variance,
                      l_channel |-> OneLevel(level), avg_dark |-> c] :
                        c \in DarkColors(OneLevel(level))} :
                    level \in {0, 40, 128, 255}}
             \cup {[strength |-> s, depth_variance |-> v,
                     l_channel |-> h, avg_dark |-> c] :
                      s \in {1, 199, 200, 499, 500, 1199, 1200},
                      v \in {0, 19, 20, 49, 50, 119, 120},
                      h \in {<<(<<0, 2048>>), (<<200, 2048>>)>>},
                      c \in {Color(<<0, 0, 0>>, 0, 0, NaN, <<0, 0, 0>>)}}
             \cup UNION {{[strength |-> 300, depth_variance |-> 30,
                            l_channel |-> h, avg_dark |-> c] :
                              c \in DarkColors(h)} :
                          h \in LChannels}
      [] name = "strokeWidth" ->
             {[widths |-> ws, edge_widths |-> es] :
                 ws \in Lists({4, 10, 14, 45}), es \in Lists({4, 10, 14, 45})}

InitX ==
    /\ OIdle
    /\ QIdle
    /\ CIdle
    /\ MIdle
    /\ RIdle
    /\ xname \in Names
    /\ xin \in Measurements(xname)
    /\ xpc = "start"
    /\ core_out = <<>>
    /\ debug_out = <<>>

ExtractCore ==
    /\ xpc = "start"
    /\ core_out' = core_tokens(xname, xin)
    /\ xpc' = "core"
    /\ UNCHANGED <<xname, xin, debug_out>>
    /\ UNCHANGED <<ovars, qvars, cvars, mvars, rvars>>

ExtractWalkthrough ==
    /\ xpc = "core"
    /\ debug_out' = walkthrough_tokens(xname, xin)
    /\ xpc' = "both"
    /\ UNCHANGED <<xname, xin, core_out>>
    /\ UNCHANGED <<ovars, qvars, cvars, mvars, rvars>>

NextX == ExtractCore \/ ExtractWalkthrough

SpecX == InitX /\ [][NextX]_vars

-----------------------------------------------------------------------------
(* Properties of the extractors, checked under SpecX *)

\* the measurement of a uniform image: one centroid color, no blocks, no
\* contours, no projection jumps or peaks, no gradient, no distance samples
Degenerate ==
    CASE xname = "color" -> \E c \in Colors : xin.centroids = Cycled(<<c>>)
      [] xname = "spacing" -> xin.layout.blocks = <<>>
      [] xname = "borderRadius" -> xin.contours = <<>> /\ xin.contours_debug = <<>>
      [] xname = "grid" -> xin.cols = 0 /\ xin.rows = 0 /\ xin.h_peaks = <<>>
      [] xname = "elevation" ->
             xin.strength = 0 /\ xin.depth_variance = flat_depth_variance
      [] xname = "strokeWidth" -> xin.widths = <<>> /\ xin.edge_widths = <<>>
      [] OTHER -> FALSE

\* C14: on a degenerate input each core extractor returns its default: a
\* palette of one entry, spacing [], borderRadius [], grid 1 x 1, elevation 0,
\* strokeWidth [1]; strokeWidth is never empty and the grid never below 1 x 1.
C14_DegenerateDefaults ==
    xpc # "start" =>
        /\ Degenerate =>
               CASE xname = "color" -> Len(core_out.colors) = 1
                 [] xname = "spacing" -> core_out = <<>>
                 [] xname = "borderRadius" -> core_out = <<>>
                 [] xname = "grid" -> core_out = [columns |-> 1, rows |-> 1]
                 [] xname = "elevation" -> core_out.elevation = 0
                 [] xname = "strokeWidth" -> core_out = <<1>>
        /\ xname = "strokeWidth" => core_out # <<>>
        /\ xname = "grid" => core_out.columns >= 1 /\ core_out.rows >= 1

\* extract_strokes has run on an image without distance samples
C14_Witness ==
    /\ xpc # "start"
    /\ xname = "strokeWidth"
    /\ Degenerate
    /\ core_out = <<1>>

\* C15: in walkthrough mode the color extractor returns on every palette,
\* also one of fewer than two colors, and its contrast report carries the
\* summary.
C15_WalkthroughColorsReturn ==
    (xpc = "both" /\ xname = "color") =>
        /\ "tokens" \in DOMAIN debug_out
        /\ "summary" \in DOMAIN debug_out.analysis.contrast

\* C16: for every extractor the walkthrough variant returns the tokens the
\* core extractor returns on the same image.
C16_WalkthroughSameTokens ==
    xpc = "both" =>
        CASE xname = "color" ->
                 "tokens" \in DOMAIN debug_out => debug_out.tokens = core_out.colors
          [] xname = "elevation" -> debug_out.elevation = core_out.elevation
          [] OTHER -> debug_out = core_out

\* the distance between two blocks of a layout, along the axis they are laid on
BlockGap(layout) ==
    LET a == layout.blocks[1]
        b == layout.blocks[2]
    IN IF a[2] = b[2] THEN b[1] - (a[1] + a[3]) ELSE b[2] - (a[2] + a[4])

\* C17: two solid blocks 16 px apart give a spacing scale that contains 16.
C17_SpacingContainsGap ==
    (/\ xpc # "start"
     /\ xname = "spacing"
     /\ Len(xin.layout.blocks) = 2
     /\ BlockGap(xin.layout) = 16)
        => \E i \in 1..Len(core_out) : core_out[i] = 16

-----------------------------------------------------------------------------
(* main: the command line entry point *)

\* what cv2.imread and cv2.imdecode return for data that is not an image
None == [w |-> 0, h |-> 0, pix |-> 0, ink |-> 0]

\* the command line and the data behind it: a path argument or stdin, and
\* what the file or the stdin text holds
Input(path, kind, image) == [path |-> path, kind |-> kind, image |-> image]

Inputs ==
    {Input(path, "image", im) : path \in BOOLEAN, im \in Images}
        \cup {Input(path, kind, None) :
                path \in BOOLEAN,
                kind \in {"not an image", "bad base64", "empty"}}

\* cv2.imread: None for a file it cannot read or decode
load_image_from_file(src) ==
    [exc |-> FALSE, img |-> IF src.kind = "image" THEN src.image ELSE None]

\* base64.b64decode raises on text that is not base64, cv2.imdecode raises
\* on an empty buffer and returns None for bytes that are not an image
load_image_from_base64(src) ==
    CASE src.kind = "image" -> [exc |-> FALSE, img |-> src.image]
      [] src.kind = "not an image" -> [exc |-> FALSE, img |-> None]
      [] OTHER -> [exc |-> TRUE, img |-> None]

\* len(args) > 0 chooses the file, otherwise stdin
load_image(src) ==
    IF src.path THEN load_image_from_file(src)
    ELSE load_image_from_base64(src)

\* variant of the test below: main never takes the error exit
img_is_None_ignored(loaded) == FALSE

\* if img is None
img_is_None(loaded) == loaded = None

InitM ==
    /\ QIdle
    /\ CIdle
    /\ XIdle
    /\ RIdle
    /\ source \in Inputs
    /\ with_visuals \in BOOLEAN
    /\ mpc = "start"
    /\ stdout = 0
    /\ stderr = 0
    /\ status = -1
    /\ img = None
    /\ rng = 0
    /\ api = "none"
    /\ pc = "idle"
    /\ img_resized = None
    /\ img_bytes = None
    /\ task = [n \in Names |-> "none"]
    /\ workerRng = 0
    /\ results = EmptyDict
    /\ debug = EmptyDict
    /\ color_analysis = Absent
    /\ seqi = 0
    /\ ret = NoReturn
    /\ origin = NoOrigin
    /\ seen = EmptyDict
    /\ seedUsed = 0
    /\ attempts = [par |-> 0, seq |-> 0]
    /\ outOfOrder = FALSE
    /\ failedAt = -1
    /\ prev = NoPrev

\* the image was read: main goes on to the try block
MainLoad ==
    /\ mpc = "start"
    /\ ~load_image(source).exc
    /\ ~img_is_None(load_image(source).img)
    /\ img' = load_image(source).img
    /\ mpc' = "loaded"
    /\ UNCHANGED <<rng, api, pc, img_resized, img_bytes, task, workerRng,
                   results, debug, color_analysis, seqi, ret, origin, seen,
                   seedUsed, attempts, outOfOrder, failedAt, prev>>
    /\ UNCHANGED <<source, with_visuals, stdout, stderr, status, pvars>>

\* img is None: print the error on stderr and sys.exit(1)
MainReject ==
    /\ mpc = "start"
    /\ ~load_image(source).exc
    /\ img_is_None(load_image(source).img)
    /\ stderr' = stderr + 1
    /\ status' = 1
    /\ mpc' = "exited"
    /\ UNCHANGED <<ovars, pvars, source, with_visuals, stdout>>

\* the loader raised outside the try block: the interpreter prints the
\* traceback on stderr and exits with status 1
MainUncaught ==
    /\ mpc = "start"
    /\ load_image(source).exc
    /\ stderr' = stderr + 1
    /\ status' = 1
    /\ mpc' = "exited"
    /\ UNCHANGED <<ovars, pvars, source, with_visuals, stdout>>

\* tokens = extract_design_tokens(img)
MainTokens ==
    /\ mpc = "loaded"
    /\ pc = "idle"
    /\ ~with_visuals
    /\ CallTokens

\* result = extract_design_tokens_with_walkthrough(img)
MainWalkthrough ==
    /\ mpc = "loaded"
    /\ pc = "idle"
    /\ with_visuals
    /\ CallWalkthrough

\* print(json.dumps(...)) and the normal end of main
MainPrint ==
    /\ mpc = "loaded"
    /\ pc = "returned"
    /\ stdout' = stdout + 1
    /\ status' = 0
    /\ mpc' = "exited"
    /\ UNCHANGED <<ovars, pvars, source, with_visuals, stderr>>

\* except Exception: print the error on stderr and sys.exit(1)
MainExcept ==
    /\ mpc = "loaded"
    /\ pc = "raised"
    /\ stderr' = stderr + 1
    /\ status' = 1
    /\ mpc' = "exited"
    /\ UNCHANGED <<ovars, pvars, source, with_visuals, stdout>>

NextM ==
    \/ MainLoad
    \/ MainReject
    \/ MainUncaught
    \/ MainTokens
    \/ MainWalkthrough
    \/ \E n \in Names : ParallelTaskReturns(n)
    \/ \E n \in Names : WalkthroughTaskReturns(n)
    \/ \E n \in Names : TaskRaises(n)
    \/ \E n \in Names : TaskEnds(n)
    \/ TokensFallback
    \/ WalkthroughFallback
    \/ SequentialStep
    \/ WalkthroughStep
    \/ SequentialRaises
    \/ ParallelReturn
    \/ SequentialReturn
    \/ WalkthroughReturn
    \/ MainPrint
    \/ MainExcept

SpecM == InitM /\ [][NextM]_vars

Unreadable == load_image(source).exc \/ load_image(source).img = None

\* C19: when the input cannot be read as an image, main reports the failure
\* once on stderr, submits no extractor and enters no entry point, never
\* retries, prints no token output and ends with exit status 1
C19_UnreadableInputFails ==
    (mpc # "off" /\ Unreadable) =>
        /\ stdout = 0
        /\ stderr <= 1
        /\ api = "none" /\ pc = "idle"
        /\ \A n \in Names : task[n] = "none"
        /\ attempts = [par |-> 0, seq |-> 0]
        /\ mpc \in {"start", "exited"}
        /\ mpc = "start" => stderr = 0 /\ status = -1
        /\ mpc = "exited" => stderr = 1 /\ status = 1

C19_Witness ==
    /\ source.kind = "not an image"
    /\ Unreadable
    /\ mpc = "exited"
    /\ stderr = 1
    /\ status = 1

-----------------------------------------------------------------------------
(* resize_for_speed: the size of the working buffer *)

\* d * (max_width / w) rounded to the nearest integer, halves up
NearestInt(d, max_width, w) == (2 * d * max_width + w) \div (2 * w)

\* C20: the working buffer of an entry point is the image itself when its
\* width is at most 512, and otherwise has width and height scaled by
\* 512 / width and rounded to the nearest integer pixel
C20_ResizeRoundsToNearest ==
    api \in {"tokens", "walkthrough"} =>
        IF img.w <= 512
        THEN img_resized = img
        ELSE /\ img_resized.w = NearestInt(img.w, 512, img.w)
             /\ img_resized.h = NearestInt(img.h, 512, img.w)

-----------------------------------------------------------------------------
(* Properties of the harmony and temperature reports, checked under SpecC *)

\* the circular difference of two hues
Circular(h1, h2) ==
    IF Abs(h1 - h2) > 180 THEN 360 - Abs(h1 - h2) ELSE Abs(h1 - h2)

\* the pair counts of the palette's hues
PairCounts == harmony_scores(harmony_relationships(harmony_hues(unique_8)))

\* the overall type by the priority complementary > analogous > triadic > tetradic
PriorityType(n) ==
    IF n["complementary"] > 0 /\ n["analogous"] > 0 THEN "split-complementary"
    ELSE IF n["complementary"] > 0 THEN "complementary"
    ELSE IF n["analogous"] > 0 THEN "analogous"
    ELSE IF n["triadic"] >= 2 THEN "triadic"
    ELSE IF n["tetradic"] >= 3 THEN "tetradic"
    ELSE "analogous"

\* C21: with a hue spread of at least 15 degrees the overall harmony type is
\* split-complementary when both the complementary and the analogous counts
\* are positive, and otherwise follows the priority complementary > analogous
\* > triadic (count >= 2) > tetradic (count >= 3), analogous by default; so
\* an all-triadic palette is typed triadic and a palette with an analogous
\* pair and no complementary pair is never typed triadic or tetradic.
C21_HarmonyTypePriority ==
    (/\ cpc = "analysed"
     /\ Len(harmony_hues(unique_8)) >= 2
     /\ harmony.hueRange >= 15)
        => harmony.type = PriorityType(PairCounts)

\* the class of a circular difference with the end points of the ranges included
ClosedClass(d) ==
    IF d < 30 THEN "analogous"
    ELSE IF 150 <= d /\ d <= 210 THEN "complementary"
    ELSE IF 110 <= d /\ d <= 130 THEN "triadic"
    ELSE IF 80 <= d /\ d <= 100 THEN "tetradic"
    ELSE "none"

\* C22: every pair of chromatic hues has a circular difference in [0, 180]
\* and the class analogous below 30, complementary from 150 to 210, triadic
\* from 110 to 130, tetradic from 80 to 100, end points included, and none
\* otherwise; the report lists at most 5 relationships and its strength lies
\* in [0, 1].
C22_PairClasses ==
    cpc = "analysed" =>
        LET hs == harmony_hues(unique_8)
        IN /\ \A i, j \in 1..Len(hs) :
                  i < j =>
                      /\ relationship(hs[i], hs[j]).angle \in 0..180
                      /\ relationship(hs[i], hs[j]).angle = Circular(hs[i], hs[j])
                      /\ relationship(hs[i], hs[j]).type
                             = ClosedClass(Circular(hs[i], hs[j]))
           /\ Len(harmony.relationships) <= 5
           /\ harmony.strength \in 0..100

\* the samples that count as chromatic in analyze_color_temperature
ChromaticSamples == SelectSeq(unique_8, LAMBDA c : ~(c.c < 20 \/ c.h = NaN))

\* the label from the warm and cool shares w / t and c / t
TemperatureLabel(w, c, t) ==
    IF 10 * w > 6 * t THEN "warm"
    ELSE IF 10 * c > 6 * t THEN "cool"
    ELSE IF 10 * Abs(w - c) < 2 * t THEN "neutral"
    ELSE IF w > c THEN "warm-neutral"
    ELSE "cool-neutral"

\* C25: warmRatio and coolRatio are the chroma-weighted warm and cool shares
\* of the chromatic samples, achromatic samples staying out of the ratios,
\* and the label is warm above 0.6 warm, cool above 0.6 cool, neutral when
\* the ratios differ by less than 0.2, else warm-neutral or cool-neutral; a
\* palette whose chromatic samples are all warm is labelled warm.
C25_TemperatureChromaWeighted ==
    (cpc = "analysed" /\ ChromaticSamples # <<>>) =>
        LET w == temperature_weights(ChromaticSamples)
        IN /\ temperature.warmRatio = Hundredths(w.warm, w.total)
           /\ temperature.coolRatio = Hundredths(w.cool, w.total)
           /\ temperature.temperature = TemperatureLabel(w.warm, w.cool, w.total)

\* C26: a palette with at least two chromatic hues that is typed
\* monochromatic has every pair of its hues less than 15 degrees apart on
\* the hue circle.
C26_MonochromaticWithinSpread ==
    (/\ cpc = "analysed"
     /\ Len(harmony_hues(unique_8)) >= 2
     /\ harmony.type = "monochromatic")
        => LET hs == harmony_hues(unique_8)
           IN \A i, j \in 1..Len(hs) : Circular(hs[i], hs[j]) < 15

-----------------------------------------------------------------------------
(* Properties of the shadow descriptor, checked under SpecX *)

\* the pixels of the measured image with luminance below 50
DarkPixels == pixels_between(xin.l_channel, 0, 50)

\* C23: the shadow descriptor, core and walkthrough, carries a shadow color
\* exactly when at least 100 pixels have a luminance below 50, and the hue
\* of a shadow color is a number, 0 standing for an undefined hue.
C23_ShadowColorFrom100Pixels ==
    (xpc = "both" /\ xname = "elevation") =>
        /\ core_out.shadowColor # Null <=> DarkPixels >= 100
        /\ debug_out.shadowColor # Null <=> DarkPixels >= 100
        /\ core_out.shadowColor # Null => core_out.shadowColor.h \in 0..359

\* C24: the three emitted fractions of the luminance distribution, rounded
\* to two decimals, sum to 1.
C24_DistributionSumsToOne ==
    (xpc # "start" /\ xname = "elevation") =>
        core_out.distribution.dark + core_out.distribution.mid
            + core_out.distribution.light = 100

\* C24 amended: every pixel is counted in exactly one of the three luminance
\* buckets, so the fractions sum to 1 before rounding; the emitted fractions
\* are rounded to two decimals one by one and sum to 0.99, 1 or 1.01.
C24_DistributionPartitions ==
    (xpc # "start" /\ xname = "elevation") =>
        LET d == core_out.distribution
        IN /\ d.pixels[1] + d.pixels[2] + d.pixels[3]
                  = pixels_between(xin.l_channel, 0, 256)
           /\ d.dark + d.mid + d.light \in 99..101

\* three levels, one of them the first of the light bucket, and fractions
\* that round down together
C24_Witness ==
    /\ xpc # "start"
    /\ xname = "elevation"
    /\ pixels_between(xin.l_channel, 170, 171) > 0
    /\ pixels_between(xin.l_channel, 85, 170) > 0
    /\ core_out.distribution.dark + core_out.distribution.mid
           + core_out.distribution.light = 99

-----------------------------------------------------------------------------
(* Properties of the execution-mode flag and of the retry, checked under
   Spec and under the fair runs of main *)

\* meta of the bundle just returned
ReturnedMeta == IF api = "walkthrough" THEN ret.tokens["meta"] ELSE ret["meta"]

\* C27: meta.parallel of a returned bundle is true exactly when its
\* extractor entries were written by the concurrent attempt, and false when
\* the sequential fallback wrote them, in the core pipeline and in the
\* walkthrough pipeline.
C27_ParallelFlagTruthful ==
    (pc = "returned" /\ api \in {"tokens", "walkthrough"}) =>
        /\ ReturnedMeta.parallel <=> \A key \in ExtractorKeys : origin[key] = "par"
        /\ (\A key \in ExtractorKeys : origin[key] = "seq") => ~ReturnedMeta.parallel

\* every process main started ends when the scheduler keeps running what
\* can run: every extractor call terminates
SpecMFair == SpecM /\ WF_vars(NextM)

\* the bundle of the call that returned to main
MainBundle == IF api = "walkthrough" THEN ret.tokens ELSE ret

\* C28: one call makes at most one concurrent attempt and at most one
\* sequential re-run; when the re-run raises too, nothing is returned, main
\* reports the error once and prints no bundle; a bundle that is returned has
\* every entry; and every run of main ends.
C28_OneRetryThenReport ==
    /\ [](/\ attempts.par <= 1
          /\ attempts.seq <= 1
          /\ pc = "sequential" => attempts.seq = 1
          /\ pc = "raised" => (attempts.seq = 1 /\ ret = NoReturn /\ stdout = 0)
          /\ (pc = "raised" /\ mpc = "exited") => (stderr = 1 /\ status = 1)
          /\ pc = "returned" => \A key \in Keys : MainBundle[key] # Absent
          /\ stdout > 0 => (pc = "returned" /\ stdout = 1 /\ status = 0))
    /\ <>(mpc = "exited")

\* the sequential re-run raised after storing some entries and main has
\* reported it
C28_Witness ==
    /\ mpc = "exited"
    /\ pc = "raised"
    /\ attempts = [par |-> 1, seq |-> 1]
    /\ seqi = 3
    /\ stderr = 1
    /\ stdout = 0

-----------------------------------------------------------------------------
(* SpecR: resize_for_speed on images of many sizes *)

\* widths and heights for which int(d * (max_width / w)) is the exact
\* quotient in double precision, for max_width 256 and 512
Widths == {1, 64, 256, 257, 512, 513, 1024, 1920, 4096}
Heights == {1, 2, 3, 7, 8, 767, 1080}

\* cv2.resize with a dsize one side of which is 0 fails its assertion
dsize_empty(im) == im.w <= 0 \/ im.h <= 0

\* resize_for_speed with the outcome of cv2.resize
resized_or_raised(im, max_width) ==
    IF im.w <= max_width THEN im
    ELSE IF dsize_empty(resize_for_speed(im, max_width))
    THEN [raised |-> "cv2.error"]
    ELSE resize_for_speed(im, max_width)

InitR ==
    /\ OIdle
    /\ QIdle
    /\ CIdle
    /\ XIdle
    /\ MIdle
    /\ \E w \in Widths, h \in Heights : rin = [w |-> w, h |-> h, pix |-> 1, ink |-> 0]
    /\ rmax \in {256, 512}
    /\ rpc = "start"
    /\ rout = <<>>

Resize ==
    /\ rpc = "start"
    /\ rout' = resized_or_raised(rin, rmax)
    /\ rpc' = "resized"
    /\ UNCHANGED <<rin, rmax>>
    /\ UNCHANGED <<ovars, qvars, cvars, xvars, mvars>>

NextR == Resize

SpecR == InitR /\ [][NextR]_vars

\* C29: for an image of width and height at least 1 and either maximum,
\* resize_for_speed returns an image of width and height at least 1 and of
\* width at most the maximum.
C29_ResizedNeverEmpty ==
    rpc = "resized" =>
        /\ "raised" \notin DOMAIN rout
        /\ rout.w >= 1
        /\ rout.h >= 1
        /\ rout.w <= rmax

=============================================================================
